---- MODULE Spec2Model ----
(***************************************************************************)
(* Resource Allocation & Council Escalation Engine.                        *)
(*                                                                         *)
(* The model is DemoResourceDistributorAgent (c42_resource_integration.tsx)*)
(* running on the transport createMockSDK of the same file.                *)
(*                                                                         *)
(* Numbers.  The code computes with JavaScript numbers.  The model computes*)
(* with exact rationals <<numerator, denominator>> in lowest terms, so a   *)
(* proportion such as 30/45 is itself and not a rounded value; IEEE        *)
(* rounding is outside the model.                                          *)
(*                                                                         *)
(* Scheduling.  A handler runs synchronously up to its first await.  Every *)
(* transport call of createMockSDK returns an already resolved promise, so *)
(* each await only queues the rest of the handler as a microtask.  The     *)
(* microtask queue drains before the next macrotask (a timer callback or a *)
(* broadcast from the page) starts.  The order in which the queued         *)
(* continuations of different handlers run depends on how many ticks each  *)
(* await takes, so the model leaves that order open.                       *)
(***************************************************************************)
EXTENDS Integers, Sequences, FiniteSets, TLC

(***************************************************************************)
(* Exact rational arithmetic                                               *)
(***************************************************************************)
RECURSIVE Gcd(_, _)
Gcd(a, b) == IF b = 0 THEN a ELSE Gcd(b, a % b)

Abs(x) == IF x < 0 THEN 0 - x ELSE x

R(n, d) ==
  LET g == Gcd(Abs(n), Abs(d))
      s == IF d < 0 THEN 0 - 1 ELSE 1
  IN  <<(s * n) \div g, (s * d) \div g>>

R0 == <<0, 1>>
R1 == <<1, 1>>

\* Denominators are brought to their least common multiple and factors are
\* cancelled before multiplying, to keep the intermediate integers small.
RAdd(a, b) ==
  LET g == Gcd(a[2], b[2])
  IN  R(a[1] * (b[2] \div g) + b[1] * (a[2] \div g), (a[2] \div g) * b[2])
RNeg(a) == <<0 - a[1], a[2]>>
RSub(a, b) == RAdd(a, RNeg(b))
RMul(a, b) ==
  LET g1 == Gcd(Abs(a[1]), b[2])
      g2 == Gcd(Abs(b[1]), a[2])
  IN  R((a[1] \div g1) * (b[1] \div g2), (a[2] \div g2) * (b[2] \div g1))
RDiv(a, b) == RMul(a, IF b[1] < 0 THEN <<0 - b[2], 0 - b[1]>> ELSE <<b[2], b[1]>>)
RLt(a, b) ==
  LET g == Gcd(a[2], b[2])
  IN  a[1] * (b[2] \div g) < b[1] * (a[2] \div g)
RLe(a, b) == ~RLt(b, a)
RMin(a, b) == IF RLt(b, a) THEN b ELSE a
RMax(a, b) == IF RLt(a, b) THEN b ELSE a

RECURSIVE RSum(_)
RSum(s) == IF Len(s) = 0 THEN R0 ELSE RAdd(s[1], RSum(Tail(s)))

RECURSIVE Concat(_)
Concat(ss) == IF Len(ss) = 0 THEN <<>> ELSE ss[1] \o Concat(Tail(ss))

(***************************************************************************)
(* JavaScript Map and object with string keys: a sequence of records in    *)
(* insertion order, each with its key in the field id.                     *)
(***************************************************************************)
IndexOf(seq, key) ==
  IF \E i \in 1..Len(seq) : seq[i].id = key
  THEN CHOOSE i \in 1..Len(seq) : seq[i].id = key
  ELSE 0

Has(seq, key) == IndexOf(seq, key) # 0

MapSet(seq, rec) ==
  IF Has(seq, rec.id)
  THEN [seq EXCEPT ![IndexOf(seq, rec.id)] = rec]
  ELSE Append(seq, rec)

\* donor.preferences[causeId] || 0
Pref(donor, causeId) ==
  IF causeId \in DOMAIN donor.preferences THEN donor.preferences[causeId] ELSE R0

\* { ...old, ...new }
Spread(old, new) ==
  [c \in (DOMAIN old) \cup (DOMAIN new) |-> IF c \in DOMAIN new THEN new[c] ELSE old[c]]

\* donorAllocations[causeId] || 0
CellOr0(row, causeId) ==
  IF Has(row.cells, causeId) THEN row.cells[IndexOf(row.cells, causeId)].amount ELSE R0

\* Every amount of a matrix, row by row.
Amounts(m) ==
  Concat([k \in 1..Len(m) |-> [j \in 1..Len(m[k].cells) |-> m[k].cells[j].amount]])

\* The (donor, cause) pairs of a matrix.
CellsOf(m) ==
  UNION {{<<m[k].id, m[k].cells[j].id>> : j \in 1..Len(m[k].cells)} : k \in 1..Len(m)}

\* The amount of cell (d, c) of a matrix, 0 when the matrix has no such cell.
AmountAt(m, d, c) == IF Has(m, d) THEN CellOr0(m[IndexOf(m, d)], c) ELSE R0

RowSum(m, d) ==
  IF Has(m, d)
  THEN LET cells == m[IndexOf(m, d)].cells
       IN  RSum([j \in 1..Len(cells) |-> cells[j].amount])
  ELSE R0

(***************************************************************************)
(* Allocation Ledger: the pure computations                                *)
(***************************************************************************)
councilThreshold == R(7, 10)
majorShare == R(3, 10)

\* calculateAllocations without the test allocation > 0 of line 209.
calculateAllocationsKeepingAll(ds, cs) ==
  LET funded == SelectSeq(ds, LAMBDA d : RLt(R0, d.allocationBudget))
      Row(donor) ==
        LET relevantCauses == SelectSeq(cs, LAMBDA c : RLt(R0, Pref(donor, c.id)))
            weightedScore(c) ==
              RMul(RMul(Pref(donor, c.id), c.priority),
                   RMin(c.need, donor.allocationBudget))
            totalWeightedPriority ==
              RSum([k \in 1..Len(relevantCauses) |-> weightedScore(relevantCauses[k])])
            allocation(c) ==
              RMin(RMul(donor.allocationBudget,
                        RDiv(weightedScore(c), totalWeightedPriority)),
                   RSub(c.need, c.received))
            all == [k \in 1..Len(relevantCauses) |->
                      [id |-> relevantCauses[k].id,
                       amount |-> allocation(relevantCauses[k])]]
        IN  [id |-> donor.id,
             cells |-> IF Len(relevantCauses) = 0 \/ RLe(totalWeightedPriority, R0)
                       THEN <<>>
                       ELSE all]
  IN  [k \in 1..Len(funded) |-> Row(funded[k])]

calculateAllocations(ds, cs) ==
  LET funded == SelectSeq(ds, LAMBDA d : RLt(R0, d.allocationBudget))
      Row(donor) ==
        LET relevantCauses == SelectSeq(cs, LAMBDA c : RLt(R0, Pref(donor, c.id)))
            weightedScore(c) ==
              RMul(RMul(Pref(donor, c.id), c.priority),
                   RMin(c.need, donor.allocationBudget))
            totalWeightedPriority ==
              RSum([k \in 1..Len(relevantCauses) |-> weightedScore(relevantCauses[k])])
            allocation(c) ==
              RMin(RMul(donor.allocationBudget,
                        RDiv(weightedScore(c), totalWeightedPriority)),
                   RSub(c.need, c.received))
            all == [k \in 1..Len(relevantCauses) |->
                      [id |-> relevantCauses[k].id,
                       amount |-> allocation(relevantCauses[k])]]
        IN  [id |-> donor.id,
             cells |-> IF Len(relevantCauses) = 0 \/ RLe(totalWeightedPriority, R0)
                       THEN <<>>
                       ELSE SelectSeq(all, LAMBDA x : RLt(R0, x.amount))]
  IN  [k \in 1..Len(funded) |-> Row(funded[k])]

\* calculateConfidence adding up what is proposed without the cap at need.
calculateConfidenceUncapped(allocations, cs) ==
  LET totalNeed == RSum([k \in 1..Len(cs) |-> cs[k].need])
      causeReceived(c) ==
        RSum([k \in 1..Len(allocations) |-> CellOr0(allocations[k], c.id)])
      totalMet == RSum([k \in 1..Len(cs) |-> causeReceived(cs[k])])
  IN  IF RLt(R0, totalNeed) THEN RDiv(totalMet, totalNeed) ELSE R1

calculateConfidence(allocations, cs) ==
  LET totalNeed == RSum([k \in 1..Len(cs) |-> cs[k].need])
      causeReceived(c) ==
        RSum([k \in 1..Len(allocations) |-> CellOr0(allocations[k], c.id)])
      totalMet ==
        RSum([k \in 1..Len(cs) |-> RMin(causeReceived(cs[k]), cs[k].need)])
  IN  IF RLt(R0, totalNeed) THEN RDiv(totalMet, totalNeed) ELSE R1

\* detectMajorReallocation with >= in place of >.
detectMajorReallocationAtLeast(allocations) ==
  LET totalAllocation == RSum(Amounts(allocations))
      amounts == Amounts(allocations)
  IN  \E k \in 1..Len(amounts) : RLe(RMul(totalAllocation, majorShare), amounts[k])

detectMajorReallocation(allocations) ==
  LET totalAllocation == RSum(Amounts(allocations))
      amounts == Amounts(allocations)
  IN  \E k \in 1..Len(amounts) : RLt(RMul(totalAllocation, majorShare), amounts[k])

(***************************************************************************)
(* Council Synthesizer.  An insight is [agent, recommendations,            *)
(* confidence]; recommendations is a matrix that may lack rows and cells.  *)
(***************************************************************************)
blendInsights == R(7, 10)
blendOriginal == R(3, 10)

\* insight.recommendations[donorId] && insight.recommendations[donorId][causeId]
\* as a filter condition: the row exists and the cell's value is truthy.
Recommends(insight, donorId, causeId) ==
  /\ Has(insight.recommendations, donorId)
  /\ Has(insight.recommendations[IndexOf(insight.recommendations, donorId)].cells, causeId)
  /\ AmountAt(insight.recommendations, donorId, causeId) # R0

\* synthesizeCouncilDecision taking a cell nobody advises on as advised 0.
synthesizeUnadvisedAsZero(proposed, insights) ==
  LET Blend(donorId, cell) ==
        LET voters == SelectSeq(insights, LAMBDA x : Recommends(x, donorId, cell.id))
            recommendations ==
              [k \in 1..Len(voters) |-> AmountAt(voters[k].recommendations, donorId, cell.id)]
            avgRecommendation ==
              IF Len(recommendations) > 0
              THEN RDiv(RSum(recommendations), R(Len(recommendations), 1))
              ELSE R0
        IN  RAdd(RMul(avgRecommendation, blendInsights),
                 RMul(cell.amount, blendOriginal))
  IN  [k \in 1..Len(proposed) |->
        [id |-> proposed[k].id,
         cells |-> [j \in 1..Len(proposed[k].cells) |->
                     [id |-> proposed[k].cells[j].id,
                      amount |-> Blend(proposed[k].id, proposed[k].cells[j])]]]]

synthesizeCouncilDecision(proposed, insights) ==
  LET Blend(donorId, cell) ==
        LET originalAmount == cell.amount
            voters == SelectSeq(insights, LAMBDA x : Recommends(x, donorId, cell.id))
            recommendations ==
              [k \in 1..Len(voters) |-> AmountAt(voters[k].recommendations, donorId, cell.id)]
            avgRecommendation == RDiv(RSum(recommendations), R(Len(recommendations), 1))
        IN  IF Len(recommendations) > 0
            THEN RAdd(RMul(avgRecommendation, blendInsights),
                      RMul(originalAmount, blendOriginal))
            ELSE originalAmount
  IN  [k \in 1..Len(proposed) |->
        [id |-> proposed[k].id,
         cells |-> [j \in 1..Len(proposed[k].cells) |->
                     [id |-> proposed[k].cells[j].id,
                      amount |-> Blend(proposed[k].id, proposed[k].cells[j])]]]]

(***************************************************************************)
(* The three specialist advisors of triggerSpecialistAgents                *)
(***************************************************************************)
\* causeId.includes(word), for the cause names of the demo.
Includes(causeId, word) ==
  <<causeId, word>> \in {<<"climate-fund", "climate">>,
                         <<"education-fund", "education">>,
                         <<"journalism-fund", "journalism">>}

\* The recommendations every generator builds: cell j of row k scaled by
\* factor[k][j].
Scaled(allocations, factor) ==
  [k \in 1..Len(allocations) |->
    [id |-> allocations[k].id,
     cells |-> [j \in 1..Len(allocations[k].cells) |->
                 [id |-> allocations[k].cells[j].id,
                  amount |-> RMul(allocations[k].cells[j].amount, factor[k][j])]]]]

generateEthicsInsight(allocations) ==
  LET adjustment ==
        [k \in 1..Len(allocations) |->
          [j \in 1..Len(allocations[k].cells) |->
            LET causeId == allocations[k].cells[j].id
            IN  IF Includes(causeId, "climate") \/ Includes(causeId, "education")
                THEN R(11, 10) ELSE R(95, 100)]]
  IN  [agent |-> "Ethics-Agent",
       recommendations |-> Scaled(allocations, adjustment),
       confidence |-> R(85, 100)]

generateImpactInsight(allocations) ==
  LET multiplier ==
        [k \in 1..Len(allocations) |->
          [j \in 1..Len(allocations[k].cells) |->
            LET causeId == allocations[k].cells[j].id
            IN  IF Includes(causeId, "journalism") THEN R(115, 100)
                ELSE IF Includes(causeId, "education") THEN R(105, 100) ELSE R1]]
  IN  [agent |-> "Impact-Agent",
       recommendations |-> Scaled(allocations, multiplier),
       confidence |-> R(9, 10)]

\* random[k][j] is the value Math.random() returned for cell j of row k.
generateCommunityInsight(allocations, random) ==
  LET adjustment ==
        [k \in 1..Len(allocations) |->
          [j \in 1..Len(allocations[k].cells) |->
            RAdd(R(98, 100), RMul(random[k][j], R(4, 100)))]]
  IN  [agent |-> "Community-Agent",
       recommendations |-> Scaled(allocations, adjustment),
       confidence |-> R(8, 10)]

(***************************************************************************)
(* The agent's state                                                       *)
(***************************************************************************)
VARIABLES
  donors,             \* this.donors: Map donorId -> DonorProfile, insertion order
  causes,             \* this.causes: Map causeId -> CauseProfile, insertion order
  allocationHistory,  \* this.allocationHistory
  isProcessing,       \* this.isProcessing
  councilActive,      \* this.councilActive
  councilInsights,    \* this.councilInsights
  tasks,              \* handlers suspended at an await (the microtask queue)
  timers,             \* per Council convened: the insight broadcasts still to fire
  published,          \* broadcasts the page has made so far
  councilNo,          \* history: Councils convened so far
  synthLog,           \* history: one entry per call of synthesizeCouncilDecision
  proposedLog,        \* history: the proposed matrix of each Council convened
  evalLog,            \* history: the ledger as the latest evaluation found it
  fnArg,              \* input of the pure function under check
  fnRes               \* its result

vars == <<donors, causes, allocationHistory, isProcessing, councilActive,
          councilInsights, tasks, timers, published, councilNo, synthLog,
          proposedLog, evalLog, fnArg, fnRes>>

\* The agent's fields and the history as one record, so that the synchronous
\* part of one handler can run after that of another within one step.
Cur ==
  [donors |-> donors, causes |-> causes, allocationHistory |-> allocationHistory,
   isProcessing |-> isProcessing, councilActive |-> councilActive,
   councilInsights |-> councilInsights, tasks |-> tasks, timers |-> timers,
   councilNo |-> councilNo, synthLog |-> synthLog, proposedLog |-> proposedLog,
   evalLog |-> evalLog]

Install(s) ==
  /\ donors' = s.donors
  /\ causes' = s.causes
  /\ allocationHistory' = s.allocationHistory
  /\ isProcessing' = s.isProcessing
  /\ councilActive' = s.councilActive
  /\ councilInsights' = s.councilInsights
  /\ tasks' = s.tasks
  /\ timers' = s.timers
  /\ councilNo' = s.councilNo
  /\ synthLog' = s.synthLog
  /\ proposedLog' = s.proposedLog
  /\ evalLog' = s.evalLog

NoEval == [seen |-> FALSE, donors |-> <<>>, causes |-> <<>>,
           history |-> <<>>, councilActive |-> FALSE, councilNo |-> 0]

\* A suspended handler.  kind: the handler ("offer", "need", "pref",
\* "insight"); pc: the await it is suspended at; who: the donor or cause the
\* acknowledgement goes to; skipped: evaluateAllocations returned at once
\* because isProcessing was set; allocations, row, cell: the matrix
\* executeAllocations works on and the loop's position; stale: the donor
\* object the row loop holds is no longer the one in this.donors;
\* executedAllocations: the local list of executeAllocations.
Task(kind, who) ==
  [kind |-> kind, pc |-> "afterEval", who |-> who, skipped |-> FALSE,
   allocations |-> <<>>, confidence |-> R0, row |-> 0, cell |-> 0,
   stale |-> FALSE, executedAllocations |-> <<>>]

ConvenePcs == {"convened", "contextSent"}
ExecutePcs == {"donorNotified", "causeNotified", "summarySent"}

\* The task is inside the body of evaluateAllocations.
InEvaluation(t) == t.kind # "insight" /\ t.pc \in ConvenePcs \cup ExecutePcs

(***************************************************************************)
(* executeAllocations                                                      *)
(***************************************************************************)
\* A transfer that leaves the donor's allocationBudget alone.
TransferWalletOnly(s, t, i, j, stale) ==
  LET donorId == t.allocations[i].id
      cellRec == t.allocations[i].cells[j]
      amount == cellRec.amount
      di == IndexOf(s.donors, donorId)
      ci == IndexOf(s.causes, cellRec.id)
      donors1 ==
        IF stale \/ di = 0 THEN s.donors
        ELSE [s.donors EXCEPT ![di].wallet = RSub(@, amount)]
      causes1 ==
        [s.causes EXCEPT
           ![ci].received = RAdd(@, amount),
           ![ci].totalReceived = RAdd(@, amount)]
      event ==
        [donorId |-> donorId, causeId |-> cellRec.id, amount |-> amount,
         confidence |-> calculateConfidence(t.allocations, causes1),
         councilSynthesized |-> s.councilActive]
      t1 == [t EXCEPT !.pc = "donorNotified", !.row = i, !.cell = j,
                      !.stale = stale,
                      !.executedAllocations = Append(@, event)]
  IN  [s EXCEPT !.donors = donors1, !.causes = causes1,
                !.allocationHistory = Append(@, event),
                !.tasks = Append(@, t1)]

\* One transfer: lines 391-407, then the whisper to the donor.
Transfer(s, t, i, j, stale) ==
  LET donorId == t.allocations[i].id
      cellRec == t.allocations[i].cells[j]
      amount == cellRec.amount
      di == IndexOf(s.donors, donorId)
      ci == IndexOf(s.causes, cellRec.id)
      donors1 ==
        IF stale \/ di = 0 THEN s.donors
        ELSE [s.donors EXCEPT
                ![di].wallet = RSub(@, amount),
                ![di].allocationBudget = RSub(@, amount)]
      causes1 ==
        [s.causes EXCEPT
           ![ci].received = RAdd(@, amount),
           ![ci].totalReceived = RAdd(@, amount)]
      event ==
        [donorId |-> donorId, causeId |-> cellRec.id, amount |-> amount,
         confidence |-> calculateConfidence(t.allocations, causes1),
         councilSynthesized |-> s.councilActive]
      t1 == [t EXCEPT !.pc = "donorNotified", !.row = i, !.cell = j,
                      !.stale = stale,
                      !.executedAllocations = Append(@, event)]
  IN  [s EXCEPT !.donors = donors1, !.causes = causes1,
                !.allocationHistory = Append(@, event),
                !.tasks = Append(@, t1)]

\* After the loops: reset every cause's received, broadcast the summary.
FinishBatch(s, t) ==
  [s EXCEPT
     !.causes = [k \in 1..Len(s.causes) |-> [s.causes[k] EXCEPT !.received = R0]],
     !.tasks = Append(@, [t EXCEPT !.pc = "summarySent"])]

\* The content of the allocation_summary broadcast of a finished batch.
allocationSummary(t) ==
  [totalAllocated |->
     RSum([e \in 1..Len(t.executedAllocations) |-> t.executedAllocations[e].amount]),
   allocationCount |-> Len(t.executedAllocations),
   donorsParticipated |->
     Cardinality({t.executedAllocations[e].donorId : e \in 1..Len(t.executedAllocations)}),
   causesSupported |->
     Cardinality({t.executedAllocations[e].causeId : e \in 1..Len(t.executedAllocations)})]

\* The loops with a cell of an unknown cause ending its row.
RECURSIVE ExecuteFromLeavingRow(_, _, _, _, _)
ExecuteFromLeavingRow(s, t, i, j, stale) ==
  IF i > Len(t.allocations) THEN FinishBatch(s, t)
  ELSE IF j = 1 /\ ~Has(s.donors, t.allocations[i].id)
       THEN ExecuteFromLeavingRow(s, t, i + 1, 1, FALSE)
  ELSE IF j > Len(t.allocations[i].cells)
       THEN ExecuteFromLeavingRow(s, t, i + 1, 1, FALSE)
  ELSE IF ~Has(s.causes, t.allocations[i].cells[j].id)
       THEN ExecuteFromLeavingRow(s, t, i + 1, 1, FALSE)
  ELSE IF RLe(t.allocations[i].cells[j].amount, R0)
       THEN ExecuteFromLeavingRow(s, t, i, j + 1, IF j = 1 THEN FALSE ELSE stale)
  ELSE Transfer(s, t, i, j, IF j = 1 THEN FALSE ELSE stale)

\* The two for-loops from row i, cell j on, up to the next await.
RECURSIVE ExecuteFrom(_, _, _, _, _)
ExecuteFrom(s, t, i, j, stale) ==
  IF i > Len(t.allocations) THEN FinishBatch(s, t)
  ELSE IF j = 1 /\ ~Has(s.donors, t.allocations[i].id)
       THEN ExecuteFrom(s, t, i + 1, 1, FALSE)
  ELSE IF j > Len(t.allocations[i].cells)
       THEN ExecuteFrom(s, t, i + 1, 1, FALSE)
  ELSE IF \/ ~Has(s.causes, t.allocations[i].cells[j].id)
          \/ RLe(t.allocations[i].cells[j].amount, R0)
       THEN ExecuteFrom(s, t, i, j + 1, IF j = 1 THEN FALSE ELSE stale)
  ELSE Transfer(s, t, i, j, IF j = 1 THEN FALSE ELSE stale)

executeAllocations(s, t, allocations) ==
  ExecuteFrom(s, [t EXCEPT !.allocations = allocations], 1, 1, FALSE)

(***************************************************************************)
(* evaluateAllocations and conveneCouncil, up to the first await           *)
(***************************************************************************)
conveneCouncil(s, t, allocations, confidence) ==
  [s EXCEPT
     !.councilActive = TRUE,
     !.councilInsights = <<>>,
     !.councilNo = @ + 1,
     !.proposedLog = Append(@, allocations),
     !.tasks = Append(@, [t EXCEPT !.pc = "convened",
                                   !.allocations = allocations,
                                   !.confidence = confidence])]

\* The start of an evaluation as evaluateAllocations records it.
Started(s) ==
  [s EXCEPT
     !.isProcessing = TRUE,
     !.evalLog = [seen |-> TRUE, donors |-> s.donors, causes |-> s.causes,
                  history |-> s.allocationHistory,
                  councilActive |-> s.councilActive,
                  councilNo |-> s.councilNo]]

\* The branch taken on confidence alone, as
\* ResourceDistributorAgent.evaluateAllocations takes it.
DecideOnConfidence(s, t, allocations, confidence) ==
  IF RLt(confidence, councilThreshold)
  THEN conveneCouncil(s, [t EXCEPT !.confidence = confidence], allocations, confidence)
  ELSE executeAllocations(s, [t EXCEPT !.confidence = confidence], allocations)

\* The branch evaluateAllocations takes once allocations and confidence are
\* computed.
Decide(s, t, allocations, confidence) ==
  IF RLt(confidence, councilThreshold) \/ detectMajorReallocation(allocations)
  THEN conveneCouncil(s, [t EXCEPT !.confidence = confidence], allocations, confidence)
  ELSE executeAllocations(s, [t EXCEPT !.confidence = confidence], allocations)

\* evaluateAllocations without the isProcessing test of its first line.
evaluateAllocationsUnguarded(s, t) ==
  IF Len(s.donors) = 0 \/ Len(s.causes) = 0
  THEN [s EXCEPT !.tasks = Append(@, [t EXCEPT !.skipped = s.isProcessing])]
  ELSE CHOOSE next \in
         {Decide(Started(s), t, allocations, calculateConfidence(allocations, s.causes)) :
            allocations \in {calculateAllocations(s.donors, s.causes)}} : TRUE

\* evaluateAllocations without the test of detectMajorReallocation.
evaluateAllocationsConfidenceOnly(s, t) ==
  IF s.isProcessing \/ Len(s.donors) = 0 \/ Len(s.causes) = 0
  THEN [s EXCEPT !.tasks = Append(@, [t EXCEPT !.skipped = s.isProcessing])]
  ELSE CHOOSE next \in
         {DecideOnConfidence(Started(s), t, allocations,
                             calculateConfidence(allocations, s.causes)) :
            allocations \in {calculateAllocations(s.donors, s.causes)}} : TRUE

\* const allocations = this.calculateAllocations() is bound through a
\* one-element set, so that the matrix is computed once and then used.
evaluateAllocations(s, t) ==
  IF s.isProcessing \/ Len(s.donors) = 0 \/ Len(s.causes) = 0
  THEN [s EXCEPT !.tasks = Append(@, [t EXCEPT !.skipped = s.isProcessing])]
  ELSE CHOOSE next \in
         {Decide(Started(s), t, allocations, calculateConfidence(allocations, s.causes)) :
            allocations \in {calculateAllocations(s.donors, s.causes)}} : TRUE

(***************************************************************************)
(* The message handlers, up to the first await                             *)
(***************************************************************************)
\* A donor object replaced in this.donors is no longer the object a running
\* row loop of executeAllocations holds.
Detach(ts, donorId) ==
  [k \in 1..Len(ts) |->
     IF ts[k].pc \in {"donorNotified", "causeNotified"}
        /\ ts[k].allocations[ts[k].row].id = donorId
     THEN [ts[k] EXCEPT !.stale = TRUE] ELSE ts[k]]

\* handleCapacityOffer taking the default fraction 0.15 whatever the offer says.
handleCapacityOfferDefaultFraction(s, content) ==
  LET donor == [id |-> content.donorId,
                wallet |-> content.wallet,
                preferences |-> content.preferences,
                allocationBudget |-> RMul(content.wallet, R(15, 100))]
      s1 == [s EXCEPT !.donors = MapSet(@, donor),
                      !.tasks = Detach(@, content.donorId)]
  IN  evaluateAllocations(s1, Task("offer", content.donorId))

handleCapacityOffer(s, content) ==
  LET donor == [id |-> content.donorId,
                wallet |-> content.wallet,
                preferences |-> content.preferences,
                allocationBudget |-> RMul(content.wallet, content.allocationPercentage)]
      s1 == [s EXCEPT !.donors = MapSet(@, donor),
                      !.tasks = Detach(@, content.donorId)]
  IN  evaluateAllocations(s1, Task("offer", content.donorId))

handleNeedRegistration(s, content) ==
  LET cause == [id |-> content.causeId,
                need |-> content.need,
                priority |-> RMax(R0, RMin(R1, content.priority)),
                received |-> R0,
                totalReceived |-> R0]
      s1 == [s EXCEPT !.causes = MapSet(@, cause)]
  IN  evaluateAllocations(s1, Task("need", content.causeId))

handlePreferenceUpdate(s, content) ==
  LET di == IndexOf(s.donors, content.donorId)
  IN  IF di = 0 THEN s
      ELSE evaluateAllocations(
             [s EXCEPT !.donors[di].preferences = Spread(@, content.preferences)],
             Task("pref", content.donorId))

\* Lines 148-150: blend the matrix just computed and commit the result.
SynthesizeAndExecute(s, allocations) ==
  CHOOSE next \in
    {executeAllocations(
       [s EXCEPT !.synthLog =
          Append(@, [council |-> s.councilNo,
                     insights |-> Len(s.councilInsights),
                     proposed |-> allocations])],
       Task("insight", "council"), synthesized) :
       synthesized \in {synthesizeCouncilDecision(allocations, s.councilInsights)}} : TRUE

handleCouncilInsight(s, content) ==
  IF ~s.councilActive THEN s
  ELSE LET insights == Append(s.councilInsights, content)
           s1 == [s EXCEPT !.councilInsights = insights]
       IN  IF Len(insights) >= 3
           THEN CHOOSE next \in
                  {SynthesizeAndExecute(s1, allocations) :
                     allocations \in {calculateAllocations(s1.donors, s1.causes)}} : TRUE
           ELSE s1

(***************************************************************************)
(* createMockSDK: subscribe registers the handler twice, once for          *)
(* message_<pattern> and once, filtered by topic, for agent_message;       *)
(* broadcast emits agent_message and then message_<topic>.                 *)
(***************************************************************************)
Handle(s, topic, content) ==
  CASE topic = "offer_capacity" -> handleCapacityOffer(s, content)
    [] topic = "register_need" -> handleNeedRegistration(s, content)
    [] topic = "preference_update" -> handlePreferenceUpdate(s, content)
    [] topic = "council_insight" -> handleCouncilInsight(s, content)

broadcast(s, topic, content) ==
  CHOOSE next \in
    {Handle(afterAgentMessage, topic, content) :
       afterAgentMessage \in {Handle(s, topic, content)}} : TRUE

(***************************************************************************)
(* A suspended handler resumes                                             *)
(***************************************************************************)
Without(ts, idx) == [k \in 1..(Len(ts) - 1) |-> IF k < idx THEN ts[k] ELSE ts[k + 1]]

\* evaluateAllocations has returned: its locals are gone, the handler is
\* left with the acknowledgement to send.
Returned(t) == [Task(t.kind, t.who) EXCEPT !.skipped = t.skipped]

Resume(s, idx) ==
  LET t == s.tasks[idx]
      s0 == [s EXCEPT !.tasks = Without(@, idx)]
  IN  CASE t.pc = "afterEval" ->
             \* the acknowledgement whisper (none for a preference update)
             s0
        [] t.pc = "convened" ->
             \* broadcast of council:resource_context: no subscriber matches
             [s0 EXCEPT !.tasks = Append(@, [t EXCEPT !.pc = "contextSent"])]
        [] t.pc = "contextSent" ->
             \* setTimeout(triggerSpecialistAgents), whose callback only arms
             \* the three insight broadcasts; then the finally block
             [s0 EXCEPT
                !.timers = Append(@, [allocations |-> t.allocations, stage |-> 1]),
                !.isProcessing = FALSE,
                !.tasks = Append(@, Returned(t))]
        [] t.pc = "donorNotified" ->
             \* the whisper to the cause
             [s0 EXCEPT !.tasks = Append(@, [t EXCEPT !.pc = "causeNotified"])]
        [] t.pc = "causeNotified" ->
             ExecuteFrom(s0, t, t.row, t.cell + 1, t.stale)
        [] t.pc = "summarySent" ->
             IF t.kind = "insight"
             THEN [s0 EXCEPT !.councilActive = FALSE, !.councilInsights = <<>>]
             ELSE [s0 EXCEPT !.isProcessing = FALSE,
                             !.tasks = Append(@, Returned(t))]

\* A rejection that leaves evaluateAllocations without its finally block.
ThrowPastFinally(s, idx) == [s EXCEPT !.tasks = Without(@, idx)]

\* The call the handler is suspended at rejects (a transport error).  Nothing
\* catches it: executeAllocations and conveneCouncil end there, the finally
\* block of evaluateAllocations (lines 171-173) runs, and the handler ends
\* without sending its acknowledgement; handleCouncilInsight ends before
\* lines 152-153.
Throw(s, idx) ==
  LET t == s.tasks[idx]
      s0 == [s EXCEPT !.tasks = Without(@, idx)]
  IN  IF InEvaluation(t) THEN [s0 EXCEPT !.isProcessing = FALSE] ELSE s0

(***************************************************************************)
(* Inputs                                                                  *)
(***************************************************************************)
MaxBroadcasts == 4
MaxCouncils == 2

Offers ==
  { [donorId |-> "alice", wallet |-> R(150, 1), allocationPercentage |-> R(1, 5),
     preferences |-> ("climate-fund" :> R(4, 5))],
    [donorId |-> "alice", wallet |-> R(150, 1), allocationPercentage |-> R(1, 5),
     preferences |-> ("climate-fund" :> R(4, 5)) @@ ("journalism-fund" :> R(4, 5))],
    [donorId |-> "bob", wallet |-> R(150, 1), allocationPercentage |-> R(1, 5),
     preferences |-> ("climate-fund" :> R(4, 5)) @@ ("journalism-fund" :> R(4, 5))] }

Needs ==
  { [causeId |-> "climate-fund", need |-> R(45, 1), priority |-> R(9, 10)],
    [causeId |-> "climate-fund", need |-> R(20, 1), priority |-> R(9, 10)],
    [causeId |-> "journalism-fund", need |-> R(20, 1), priority |-> R(9, 10)] }

PreferenceUpdates ==
  { [donorId |-> "alice", preferences |-> ("journalism-fund" :> R(4, 5))] }

\* Values Math.random() may return.  generateCommunityInsight draws one per
\* cell; the draws of one insight are taken equal here.
RandomValues == {R0, R(1, 2)}
RandomFor(allocations) ==
  {[k \in 1..Len(allocations) |-> [j \in 1..Len(allocations[k].cells) |-> r]] :
     r \in RandomValues}

(***************************************************************************)
(* Actions                                                                 *)
(***************************************************************************)
Init ==
  /\ donors = <<>>
  /\ causes = <<>>
  /\ allocationHistory = <<>>
  /\ isProcessing = FALSE
  /\ councilActive = FALSE
  /\ councilInsights = <<>>
  /\ tasks = <<>>
  /\ timers = <<>>
  /\ published = 0
  /\ councilNo = 0
  /\ synthLog = <<>>
  /\ proposedLog = <<>>
  /\ evalLog = NoEval
  /\ fnArg = <<>>
  /\ fnRes = <<>>

\* The page sends its next message once the handlers of the previous one have
\* run to completion.
CanPublish ==
  /\ tasks = <<>>
  /\ published < MaxBroadcasts
  /\ councilNo < MaxCouncils

\* await sdk.agent.broadcast({from, topic, content})
Publish(topic, content) ==
  /\ published' = published + 1
  /\ \E next \in {broadcast(Cur, topic, content)} : Install(next)
  /\ UNCHANGED <<fnArg, fnRes>>

\* sendMockDonor
OfferCapacity ==
  \E content \in Offers :
    /\ CanPublish
    /\ Publish("offer_capacity", content)

\* sendMockCause
RegisterNeed ==
  \E content \in Needs :
    /\ CanPublish
    /\ Publish("register_need", content)

\* a participant's preference_update
UpdatePreference ==
  \E content \in PreferenceUpdates :
    /\ CanPublish
    /\ Publish("preference_update", content)

\* A queued continuation runs up to its next await.
ResumeTask ==
  \E idx \in 1..Len(tasks) :
    /\ \E next \in {Resume(Cur, idx)} : Install(next)
    /\ UNCHANGED <<published, fnArg, fnRes>>

\* Timers of an earlier Council are due before the same timers of a later one.
Due(k) == IF k = 1 THEN TRUE ELSE timers[k - 1].stage > timers[k].stage

\* The insights the timer of stage 1, 2 or 3 may broadcast.
InsightOf(timer) ==
  CASE timer.stage = 1 -> {generateEthicsInsight(timer.allocations)}
    [] timer.stage = 2 -> {generateImpactInsight(timer.allocations)}
    [] timer.stage = 3 ->
         {generateCommunityInsight(timer.allocations, random) :
            random \in RandomFor(timer.allocations)}

\* One of the three broadcasts armed by triggerSpecialistAgents fires.
InsightBroadcast ==
  \E k \in 1..Len(timers) :
    /\ tasks = <<>>
    /\ timers[k].stage \in 1..3
    /\ Due(k)
    /\ \E content \in InsightOf(timers[k]) :
         LET s0 == [Cur EXCEPT !.timers =
                      IF timers[k].stage = 3 THEN Without(@, k)
                      ELSE [@ EXCEPT ![k].stage = timers[k].stage + 1]]
         IN  \E next \in {broadcast(s0, "council_insight", content)} : Install(next)
    /\ UNCHANGED <<published, fnArg, fnRes>>

Next ==
  \/ OfferCapacity
  \/ RegisterNeed
  \/ UpdatePreference
  \/ ResumeTask
  \/ InsightBroadcast

Spec == Init /\ [][Next]_vars

(***************************************************************************)
(* synthesizeCouncilDecision on its own: a proposal with one row of two    *)
(* cells and three insights, each of which may lack the row, lack a cell,  *)
(* or carry the value 0 for it.                                            *)
(***************************************************************************)
ProposedAmounts == {R(10, 1), R(25, 2)}
RecommendedValues == {R0, R(12, 1)}
Confidences == {R(1, 10), R(9, 10)}

\* A cell an insight may carry for a cause: none, or one with a value.
CellChoices(causeId) ==
  {<<>>} \cup {<<[id |-> causeId, amount |-> v]>> : v \in RecommendedValues}

RecommendationChoices ==
  {<<>>} \cup
  {<<[id |-> "bob", cells |-> c1 \o c2]>> :
     c1 \in CellChoices("climate-fund"), c2 \in CellChoices("education-fund")}

InsightChoices(agent) ==
  {[agent |-> agent, recommendations |-> r, confidence |-> c] :
     r \in RecommendationChoices, c \in Confidences}

SynthArgs ==
  {[proposed |-> <<[id |-> "bob",
                    cells |-> <<[id |-> "climate-fund", amount |-> o],
                                [id |-> "education-fund", amount |-> R(20, 1)]>>]>>,
    insights |-> <<a, b, c>>] :
     o \in ProposedAmounts,
     a \in InsightChoices("Ethics-Agent"),
     b \in InsightChoices("Impact-Agent"),
     c \in InsightChoices("Community-Agent")}

InitSynth ==
  /\ donors = <<>>
  /\ causes = <<>>
  /\ allocationHistory = <<>>
  /\ isProcessing = FALSE
  /\ councilActive = FALSE
  /\ councilInsights = <<>>
  /\ tasks = <<>>
  /\ timers = <<>>
  /\ published = 0
  /\ councilNo = 0
  /\ synthLog = <<>>
  /\ proposedLog = <<>>
  /\ evalLog = NoEval
  /\ fnArg \in SynthArgs
  /\ fnRes = <<>>

Synthesize ==
  /\ fnArg \in SynthArgs
  /\ fnRes = <<>>
  /\ fnRes' = synthesizeCouncilDecision(fnArg.proposed, fnArg.insights)
  /\ UNCHANGED <<donors, causes, allocationHistory, isProcessing, councilActive,
                 councilInsights, tasks, timers, published, councilNo, synthLog,
                 proposedLog, evalLog, fnArg>>

NextSynth == Synthesize

SpecSynth == InitSynth /\ [][NextSynth]_vars

(***************************************************************************)
(* calculateConfidence on its own: up to two causes, a need of 0 included, *)
(* and a matrix of up to two rows whose cells may exceed the need.         *)
(***************************************************************************)
NeedValues == {R0, R(20, 1), R(45, 1)}
CellAmounts == {R(15, 1), R(30, 1)}

CauseOf(causeId, need) ==
  [id |-> causeId, need |-> need, priority |-> R(9, 10),
   received |-> R0, totalReceived |-> R0]

CauseLists ==
  {<<CauseOf(c, n)>> : c \in {"climate-fund", "education-fund"}, n \in NeedValues}
  \cup {<<CauseOf("climate-fund", n1), CauseOf("education-fund", n2)>> :
          n1 \in NeedValues, n2 \in NeedValues}

RowChoices(donorId) ==
  {<<>>} \cup
  {<<[id |-> donorId, cells |-> c1 \o c2]>> :
     c1 \in {<<>>} \cup {<<[id |-> "climate-fund", amount |-> a]>> : a \in CellAmounts},
     c2 \in {<<>>} \cup {<<[id |-> "education-fund", amount |-> a]>> : a \in CellAmounts}}

ConfidenceArgs ==
  {[allocations |-> r1 \o r2, causes |-> cs] :
     r1 \in RowChoices("alice"), r2 \in RowChoices("bob"), cs \in CauseLists}

InitConfidence ==
  /\ donors = <<>>
  /\ causes = <<>>
  /\ allocationHistory = <<>>
  /\ isProcessing = FALSE
  /\ councilActive = FALSE
  /\ councilInsights = <<>>
  /\ tasks = <<>>
  /\ timers = <<>>
  /\ published = 0
  /\ councilNo = 0
  /\ synthLog = <<>>
  /\ proposedLog = <<>>
  /\ evalLog = NoEval
  /\ fnArg \in ConfidenceArgs
  /\ fnRes = <<>>

Confide ==
  /\ fnArg \in ConfidenceArgs
  /\ fnRes = <<>>
  /\ fnRes' = calculateConfidence(fnArg.allocations, fnArg.causes)
  /\ UNCHANGED <<donors, causes, allocationHistory, isProcessing, councilActive,
                 councilInsights, tasks, timers, published, councilNo, synthLog,
                 proposedLog, evalLog, fnArg>>

NextConfidence == Confide

SpecConfidence == InitConfidence /\ [][NextConfidence]_vars

(***************************************************************************)
(* calculateAllocations as a call on a ledger [donors, causes]: the ledger *)
(* the call leaves behind and the matrix it returns.  The ledgers have up  *)
(* to two donors, one of them possibly with a spent budget, and up to two  *)
(* causes, one of them possibly part funded.                               *)
(***************************************************************************)
\* A calculateAllocations that books what it proposes as received.
CallCalculateAllocationsBooking(ledger) ==
  LET matrix == calculateAllocations(ledger.donors, ledger.causes)
  IN  [ledger |->
         [ledger EXCEPT !.causes =
            [k \in 1..Len(@) |->
               [@[k] EXCEPT !.received =
                  RAdd(@, RSum([r \in 1..Len(matrix) |-> CellOr0(matrix[r], ledger.causes[k].id)]))]]],
       matrix |-> matrix]

\* The method reads this.donors and this.causes and assigns to no field.
CallCalculateAllocations(ledger) ==
  [ledger |-> ledger, matrix |-> calculateAllocations(ledger.donors, ledger.causes)]

DonorOf(donorId, budget, preferences) ==
  [id |-> donorId, wallet |-> R(150, 1), preferences |-> preferences,
   allocationBudget |-> budget]

DonorLists ==
  {a \o b :
     a \in {<<>>} \cup
           {<<DonorOf("alice", budget, preferences)>> :
              budget \in {R0, R(30, 1)},
              preferences \in {("climate-fund" :> R(4, 5)),
                               ("climate-fund" :> R(4, 5)) @@ ("journalism-fund" :> R(3, 10))}},
     b \in {<<>>,
            <<DonorOf("bob", R(15, 1),
                      ("climate-fund" :> R(2, 5)) @@ ("journalism-fund" :> R(7, 10)))>>}}

LedgerCauses ==
  {c \o j :
     c \in {<<[id |-> "climate-fund", need |-> need, priority |-> R(9, 10),
               received |-> received, totalReceived |-> received]>> :
              need \in {R(20, 1), R(45, 1)}, received \in {R0, R(15, 1)}},
     j \in {<<>>,
            <<[id |-> "journalism-fund", need |-> R(35, 1), priority |-> R(7, 10),
               received |-> R0, totalReceived |-> R0]>>}}

LedgerArgs == {[donors |-> ds, causes |-> cs] : ds \in DonorLists, cs \in LedgerCauses}

InitQuery ==
  /\ donors = <<>>
  /\ causes = <<>>
  /\ allocationHistory = <<>>
  /\ isProcessing = FALSE
  /\ councilActive = FALSE
  /\ councilInsights = <<>>
  /\ tasks = <<>>
  /\ timers = <<>>
  /\ published = 0
  /\ councilNo = 0
  /\ synthLog = <<>>
  /\ proposedLog = <<>>
  /\ evalLog = NoEval
  /\ fnArg \in LedgerArgs
  /\ fnRes = <<>>

\* Two consecutive calls of calculateAllocations.
QueryTwice ==
  /\ fnArg \in LedgerArgs
  /\ fnRes = <<>>
  /\ \E first \in {CallCalculateAllocations(fnArg)} :
       \E second \in {CallCalculateAllocations(first.ledger)} :
         fnRes' = [first |-> first.matrix, second |-> second.matrix,
                   ledger |-> second.ledger]
  /\ UNCHANGED <<donors, causes, allocationHistory, isProcessing, councilActive,
                 councilInsights, tasks, timers, published, councilNo, synthLog,
                 proposedLog, evalLog, fnArg>>

NextQuery == QueryTwice

SpecQuery == InitQuery /\ [][NextQuery]_vars

(***************************************************************************)
(* The branch of evaluateAllocations on its own: a matrix of two donors    *)
(* and two causes, every cell absent or 2, 3 or 5, and a confidence below  *)
(* or above the threshold.                                                 *)
(***************************************************************************)
ShareAmounts == {R(2, 1), R(3, 1), R(5, 1)}

ShareCells(causeId) ==
  {<<>>} \cup {<<[id |-> causeId, amount |-> a]>> : a \in ShareAmounts}

ShareRows(donorId) ==
  {<<[id |-> donorId, cells |-> c1 \o c2]>> :
     c1 \in ShareCells("climate-fund"), c2 \in ShareCells("journalism-fund")}

DecisionArgs ==
  {[allocations |-> r1 \o r2, confidence |-> c] :
     r1 \in ShareRows("alice"), r2 \in ShareRows("bob"), c \in {R(1, 2), R(7, 10), R1}}

InitDecision ==
  /\ donors = <<>>
  /\ causes = <<>>
  /\ allocationHistory = <<>>
  /\ isProcessing = FALSE
  /\ councilActive = FALSE
  /\ councilInsights = <<>>
  /\ tasks = <<>>
  /\ timers = <<>>
  /\ published = 0
  /\ councilNo = 0
  /\ synthLog = <<>>
  /\ proposedLog = <<>>
  /\ evalLog = NoEval
  /\ fnArg \in DecisionArgs
  /\ fnRes = <<>>

\* Lines 166-170 for the matrix and confidence of fnArg: what
\* detectMajorReallocation returned and whether conveneCouncil was called.
DecideBranch ==
  /\ fnArg \in DecisionArgs
  /\ fnRes = <<>>
  /\ \E next \in {Decide(Started(Cur), Task("offer", "alice"),
                          fnArg.allocations, fnArg.confidence)} :
       fnRes' = [major |-> detectMajorReallocation(fnArg.allocations),
                 convened |-> next.councilNo = councilNo + 1 /\ next.councilActive]
  /\ UNCHANGED <<donors, causes, allocationHistory, isProcessing, councilActive,
                 councilInsights, tasks, timers, published, councilNo, synthLog,
                 proposedLog, evalLog, fnArg>>

NextDecision == DecideBranch

SpecDecision == InitDecision /\ [][NextDecision]_vars

(***************************************************************************)
(* handleCapacityOffer for whatever the message carries: the wallet is     *)
(* non-negative, the fraction may be negative, zero or above 1.            *)
(***************************************************************************)
OfferWallets == {R0, R(75, 1), R(100, 1), R(150, 1)}
OfferFractions == {R(0 - 1, 5), R0, R(1, 5), R1, R(3, 2)}

AnyOffers ==
  {[donorId |-> "alice", wallet |-> w, allocationPercentage |-> f, preferences |-> p] :
     w \in OfferWallets, f \in OfferFractions,
     p \in {("climate-fund" :> R(4, 5)),
            ("climate-fund" :> R(4, 5)) @@ ("journalism-fund" :> R(4, 5))}}

InitOffer ==
  /\ donors = <<>>
  /\ causes = <<>>
  /\ allocationHistory = <<>>
  /\ isProcessing = FALSE
  /\ councilActive = FALSE
  /\ councilInsights = <<>>
  /\ tasks = <<>>
  /\ timers = <<>>
  /\ published = 0
  /\ councilNo = 0
  /\ synthLog = <<>>
  /\ proposedLog = <<>>
  /\ evalLog = NoEval
  /\ fnArg \in AnyOffers
  /\ fnRes = <<>>

\* The offer of fnArg is delivered to handleCapacityOffer.
ReceiveOffer ==
  /\ fnArg \in AnyOffers
  /\ fnRes = <<>>
  /\ fnRes' = <<"offer_capacity">>
  /\ \E next \in {handleCapacityOffer(Cur, fnArg)} : Install(next)
  /\ UNCHANGED <<published, fnArg>>

\* The handler goes on after its await and sends the acknowledgement.
AcknowledgeOffer ==
  /\ fnArg \in AnyOffers
  /\ fnRes # <<>>
  /\ Len(tasks) > 0
  /\ \E next \in {Resume(Cur, 1)} : Install(next)
  /\ UNCHANGED <<published, fnArg, fnRes>>

NextOffer == ReceiveOffer \/ AcknowledgeOffer

SpecOffer == InitOffer /\ [][NextOffer]_vars

(***************************************************************************)
(* executeAllocations on its own: one batch on a ledger that holds every   *)
(* donor and cause of the matrix, and no other handler running.            *)
(***************************************************************************)
CommitAmounts == {R(0 - 5, 1), R0, R(10, 1), R(20, 1)}

CommitRows(donorId) ==
  {[id |-> donorId,
    cells |-> <<[id |-> "climate-fund", amount |-> a],
                [id |-> "journalism-fund", amount |-> b]>>] :
     a \in CommitAmounts, b \in CommitAmounts}

CommitMatrices ==
  {<<ra>> : ra \in CommitRows("alice")}
    \cup {<<ra, rb>> : ra \in CommitRows("alice"), rb \in CommitRows("bob")}

CommitDonors ==
  <<DonorOf("alice", R(30, 1), ("climate-fund" :> R(4, 5))),
    DonorOf("bob", R(30, 1), ("journalism-fund" :> R(4, 5)))>>

\* The causes; climate-fund may have been funded by earlier batches.
CommitCauses ==
  {<<[CauseOf("climate-fund", R(45, 1)) EXCEPT !.totalReceived = earlier],
     CauseOf("journalism-fund", R(45, 1))>> : earlier \in {R0, R(10, 1)}}

CommitArgs ==
  {[donors |-> CommitDonors, causes |-> cs, matrix |-> m] :
     cs \in CommitCauses, m \in CommitMatrices}

InitCommit ==
  /\ fnArg \in CommitArgs
  /\ donors = fnArg.donors
  /\ causes = fnArg.causes
  /\ allocationHistory = <<>>
  /\ isProcessing = FALSE
  /\ councilActive = FALSE
  /\ councilInsights = <<>>
  /\ tasks = <<>>
  /\ timers = <<>>
  /\ published = 0
  /\ councilNo = 0
  /\ synthLog = <<>>
  /\ proposedLog = <<>>
  /\ evalLog = NoEval
  /\ fnRes = <<>>

\* executeAllocations(fnArg.matrix) is called and runs to its first await.
BeginCommit ==
  /\ fnRes = <<>>
  /\ fnRes' = <<"executeAllocations">>
  /\ \E next \in {executeAllocations(Started(Cur), Task("offer", "alice"), fnArg.matrix)} :
       Install(next)
  /\ UNCHANGED <<published, fnArg>>

\* The batch goes on after an await; it is the only handler there is.
ContinueCommit ==
  /\ fnRes # <<>>
  /\ Len(tasks) > 0
  /\ \E next \in {Resume(Cur, 1)} : Install(next)
  /\ UNCHANGED <<published, fnArg, fnRes>>

NextCommit == BeginCommit \/ ContinueCommit

SpecCommit == InitCommit /\ [][NextCommit]_vars

(***************************************************************************)
(* executeAllocations on a ledger that may lack donors and causes of the   *)
(* matrix (lines 385 and 389).                                             *)
(***************************************************************************)
SkipAmounts == {R0, R(10, 1), R(20, 1)}

SkipRows(donorId) ==
  {[id |-> donorId,
    cells |-> <<[id |-> "climate-fund", amount |-> a],
                [id |-> "journalism-fund", amount |-> b]>>] :
     a \in SkipAmounts, b \in SkipAmounts}

SkipMatrices == {<<ra, rb>> : ra \in SkipRows("alice"), rb \in SkipRows("bob")}

\* this.donors and this.causes: any part of the matrix's donors and causes.
SkipDonors ==
  {<<>>, <<CommitDonors[1]>>, <<CommitDonors[2]>>, CommitDonors}

SkipCauses ==
  {<<>>, <<CauseOf("climate-fund", R(45, 1))>>,
   <<CauseOf("journalism-fund", R(45, 1))>>,
   <<CauseOf("climate-fund", R(45, 1)), CauseOf("journalism-fund", R(45, 1))>>}

SkipArgs ==
  {[donors |-> ds, causes |-> cs, matrix |-> m] :
     ds \in SkipDonors, cs \in SkipCauses, m \in SkipMatrices}

InitSkip ==
  /\ fnArg \in SkipArgs
  /\ donors = fnArg.donors
  /\ causes = fnArg.causes
  /\ allocationHistory = <<>>
  /\ isProcessing = FALSE
  /\ councilActive = FALSE
  /\ councilInsights = <<>>
  /\ tasks = <<>>
  /\ timers = <<>>
  /\ published = 0
  /\ councilNo = 0
  /\ synthLog = <<>>
  /\ proposedLog = <<>>
  /\ evalLog = NoEval
  /\ fnRes = <<>>

SpecSkip == InitSkip /\ [][NextCommit]_vars

(***************************************************************************)
(* executeAllocations with a transport that may fail: the whisper or the   *)
(* broadcast the batch is waiting for may reject.                          *)
(***************************************************************************)
\* The notification the batch is suspended at rejects.
NotifyFails ==
  /\ fnRes # <<>>
  /\ Len(tasks) > 0
  /\ tasks[1].pc \in ExecutePcs
  /\ fnRes' = <<"executeAllocations", "rejected">>
  /\ \E next \in {Throw(Cur, 1)} : Install(next)
  /\ UNCHANGED <<published, fnArg>>

NextFault == BeginCommit \/ ContinueCommit \/ NotifyFails

SpecFault == InitCommit /\ [][NextFault]_vars

(***************************************************************************)
(* C42AgentSDK (c42-agent-system.tsx)                                      *)
(*                                                                         *)
(* A JavaScript string is the sequence of its UTF-16 code units; Chars     *)
(* gives the code units of the strings that occur below.  The SDK object   *)
(* is a record: agents (a Map, in insertion order), trustNetwork (issuer   *)
(* -> tokens), conversations, auditLog, and emitted, the audit_entry       *)
(* events handed to the event bus.  An agent is summarised by its          *)
(* identity and by inbox, the messages its receive() was called with.      *)
(* Times are small integers.                                               *)
(***************************************************************************)
Chars ==
  "broadcast" :> <<98, 114, 111, 97, 100, 99, 97, 115, 116>> @@
  "allocation_summary" :> <<97, 108, 108, 111, 99, 97, 116, 105, 111, 110, 95, 115, 117, 109, 109, 97, 114, 121>> @@
  "new_agent_arrived" :> <<110, 101, 119, 95, 97, 103, 101, 110, 116, 95, 97, 114, 114, 105, 118, 101, 100>> @@
  "council_invitation" :> <<99, 111, 117, 110, 99, 105, 108, 95, 105, 110, 118, 105, 116, 97, 116, 105, 111, 110>> @@
  "resource_allocation_review" :> <<114, 101, 115, 111, 117, 114, 99, 101, 95, 97, 108, 108, 111, 99, 97, 116, 105, 111, 110, 95, 114, 101, 118, 105, 101, 119>> @@
  "allocation" :> <<97, 108, 108, 111, 99, 97, 116, 105, 111, 110>> @@
  "council" :> <<99, 111, 117, 110, 99, 105, 108>> @@
  "Agent" :> <<65, 103, 101, 110, 116>> @@
  "C42-OS" :> <<67, 52, 50, 45, 79, 83>> @@
  "Distributor-Agent" :> <<68, 105, 115, 116, 114, 105, 98, 117, 116, 111, 114, 45, 65, 103, 101, 110, 116>> @@
  "Ethics-Agent" :> <<69, 116, 104, 105, 99, 115, 45, 65, 103, 101, 110, 116>> @@
  "alice" :> <<97, 108, 105, 99, 101>>

\* String.prototype.toLowerCase on ASCII letters.
toLowerCase(cs) ==
  [k \in 1..Len(cs) |-> IF cs[k] >= 65 /\ cs[k] <= 90 THEN cs[k] + 32 ELSE cs[k]]

\* String.prototype.includes.
StringIncludes(cs, part) ==
  \E at \in 0..(Len(cs) - Len(part)) :
    \A k \in 1..Len(part) : cs[at + k] = part[k]

\* Number.prototype.toString(radix) for an integer: the characters.
RECURSIVE DigitsOf(_, _)
DigitsOf(n, radix) ==
  LET d == n % radix
      c == IF d < 10 THEN 48 + d ELSE 87 + d
  IN  IF n < radix THEN <<c>> ELSE Append(DigitsOf(n \div radix, radix), c)

NumberToString(n, radix) ==
  IF n < 0 THEN <<45>> \o DigitsOf(0 - n, radix) ELSE DigitsOf(n, radix)

\* One step of the reduce in generateHash: a = ((a << 5) - a) + code, then
\* a & a, which is 31 * a + code brought into the signed 32-bit range.  The
\* product is formed on 16-bit halves.
hashStep(a, code) ==
  LET lo == a % 65536
      hi == (a - lo) \div 65536
      lo2 == 31 * lo + code
      hi2 == (31 * hi + (lo2 \div 65536)) % 65536
      hiSigned == IF hi2 >= 32768 THEN hi2 - 65536 ELSE hi2
  IN  hiSigned * 65536 + (lo2 % 65536)

\* The reduce over the characters first..last, left to right, starting
\* from a; the range is halved to keep the evaluation shallow.
RECURSIVE hashReduce(_, _, _, _)
hashReduce(a, cs, first, last) ==
  IF first > last THEN a
  ELSE IF first = last THEN hashStep(a, cs[first])
  ELSE LET middle == (first + last) \div 2
       IN  CHOOSE h \in {hashReduce(b, cs, middle + 1, last) :
                           b \in {hashReduce(a, cs, first, middle)}} : TRUE

generateHash(data) == NumberToString(hashReduce(0, data, 1, Len(data)), 36)

\* JSON.stringify of the details object {from, topic, reached} of broadcast.
stringify(details) ==
  <<123, 34, 102, 114, 111, 109, 34, 58, 34>> \o Chars[details.from]
    \o <<34, 44, 34, 116, 111, 112, 105, 99, 34, 58, 34>> \o Chars[details.topic]
    \o <<34, 44, 34, 114, 101, 97, 99, 104, 101, 100, 34, 58>> \o NumberToString(details.reached, 10)
    \o <<125>>

audit(sdk, action, details, now) ==
  LET entry == [timestamp |-> now, action |-> action, details |-> details,
                hash |-> generateHash(Chars[action] \o stringify(details))]
  IN  [sdk EXCEPT !.auditLog = Append(@, entry),
                  !.emitted = Append(@, [event |-> "audit_entry", entry |-> entry])]

\* The ids of the agents one of whose interests is part of the topic, or
\* the topic part of the interest, in the order of the Map.
RECURSIVE interestedFrom(_, _, _)
interestedFrom(sdk, topic, k) ==
  IF k > Len(sdk.agents) THEN <<>>
  ELSE LET cares ==
             \E interest \in sdk.agents[k].interests :
               \/ StringIncludes(toLowerCase(Chars[topic]), toLowerCase(Chars[interest]))
               \/ StringIncludes(toLowerCase(Chars[interest]), toLowerCase(Chars[topic]))
       IN  (IF cares THEN <<sdk.agents[k].id>> ELSE <<>>)
             \o interestedFrom(sdk, topic, k + 1)

findInterestedAgents(sdk, topic) == interestedFrom(sdk, topic, 1)

\* Agent.receive: the agent is handed the message.
receive(sdk, agentId, message) ==
  [sdk EXCEPT !.agents[IndexOf(sdk.agents, agentId)].inbox = Append(@, message)]

RECURSIVE deliverFrom(_, _, _, _)
deliverFrom(sdk, agentIds, message, k) ==
  IF k > Len(agentIds) THEN sdk
  ELSE IF Has(sdk.agents, agentIds[k]) /\ agentIds[k] # message.from
       THEN deliverFrom(receive(sdk, agentIds[k], message), agentIds, message, k + 1)
  ELSE deliverFrom(sdk, agentIds, message, k + 1)

C42AgentSDK_broadcast(sdk, message, now) ==
  LET interested == findInterestedAgents(sdk, message.topic)
      audited == audit(sdk, "broadcast",
                       [from |-> message.from, topic |-> message.topic,
                        reached |-> Len(interested)], now)
  IN  deliverFrom(audited, interested, message, 1)

\* checkTrust without the test of the token's confidence.
checkTrustAnyConfidence(sdk, from, to, capability, now) ==
  \E token \in sdk.trustNetwork[from] :
    /\ token.holder = to
    /\ token.capability = capability
    /\ token.expires > now

checkTrust(sdk, from, to, capability, now) ==
  \E token \in sdk.trustNetwork[from] :
    /\ token.holder = to
    /\ token.capability = capability
    /\ token.expires > now
    /\ RLt(R(1, 2), token.confidence)

\* The result holds the SDK afterwards and whether the call threw.
C42AgentSDK_whisper(sdk, from, to, content, now) ==
  IF ~checkTrust(sdk, from, to, "whisper", now)
  THEN [sdk |-> sdk, thrown |-> TRUE]
  ELSE LET message == [from |-> from, to |-> to, type |-> "whisper",
                       topic |-> "private_message", content |-> content,
                       timestamp |-> now]
       IN  [sdk |-> IF Has(sdk.agents, to) THEN receive(sdk, to, message) ELSE sdk,
            thrown |-> FALSE]

convene(sdk, topic, initiator, now) ==
  LET interested == findInterestedAgents(sdk, topic)
      conversation == [id |-> <<"council", now, Len(sdk.conversations)>>,
                       topic |-> topic, initiator |-> initiator,
                       participants |-> {interested[k] : k \in 1..Len(interested)}]
      stored == [sdk EXCEPT !.conversations = Append(@, conversation)]
  IN  C42AgentSDK_broadcast(stored,
        [from |-> "C42-OS", to |-> interested, type |-> "request",
         topic |-> "council_invitation",
         content |-> [conversationId |-> conversation.id, topic |-> topic,
                      initiator |-> initiator],
         timestamp |-> now], now)

registerAgent(sdk, agent, now) ==
  C42AgentSDK_broadcast([sdk EXCEPT !.agents = MapSet(@, agent)],
    [from |-> "C42-OS", to |-> "*", type |-> "broadcast",
     topic |-> "new_agent_arrived",
     content |-> [id |-> agent.id],
     timestamp |-> now], now)

AgentIds == {"Distributor-Agent", "Ethics-Agent", "alice"}

\* new C42AgentSDK(...), with the trust network the tokens make up.
NewSDK(tokens) ==
  [agents |-> <<>>, conversations |-> <<>>, auditLog |-> <<>>, emitted |-> <<>>,
   trustNetwork |-> [issuer \in AgentIds |-> {t \in tokens : t.issuer = issuer}]]

(***************************************************************************)
(* Calls of C42AgentSDK, one after the other.  fnRes holds the SDK, the    *)
(* SDK before the last call and whether that call threw; fnArg the last    *)
(* call.  The class itself never adds a trust token: the tokens present    *)
(* are an input.                                                           *)
(***************************************************************************)
MaxCalls == 3
Times == {1, 2}

TrustTokens ==
  {[issuer |-> "Distributor-Agent", holder |-> "alice", capability |-> c,
    confidence |-> f, expires |-> 2, reason |-> "collaboration"] :
     c \in {"whisper", "broadcast"}, f \in {R(1, 2), R(4, 5)}}

TokenSets ==
  {{}} \cup {{t} : t \in TrustTokens}
       \cup {{t \in TrustTokens : t.capability = "broadcast" \/ t.confidence = R(1, 2)}}

AgentsToRegister ==
  {[id |-> "alice", interests |-> {"allocation"}, inbox |-> <<>>],
   [id |-> "Ethics-Agent", interests |-> {"council", "Agent"}, inbox |-> <<>>],
   [id |-> "Distributor-Agent", interests |-> {"allocation"}, inbox |-> <<>>]}

\* The allocation_summary messages of two batches.
SummaryMessages ==
  {[from |-> "Distributor-Agent", to |-> "*", type |-> "broadcast",
    topic |-> "allocation_summary",
    content |-> allocationSummary([executedAllocations |-> events])] :
     events \in {<<[donorId |-> "alice", causeId |-> "climate-fund", amount |-> R(20, 1)]>>,
                 <<[donorId |-> "alice", causeId |-> "climate-fund", amount |-> R(15, 1)],
                   [donorId |-> "alice", causeId |-> "journalism-fund", amount |-> R(15, 1)]>>}}

ledgerVars ==
  <<donors, causes, allocationHistory, isProcessing, councilActive,
    councilInsights, tasks, timers, published, councilNo, synthLog,
    proposedLog, evalLog>>

InitSDK ==
  /\ donors = <<>>
  /\ causes = <<>>
  /\ allocationHistory = <<>>
  /\ isProcessing = FALSE
  /\ councilActive = FALSE
  /\ councilInsights = <<>>
  /\ tasks = <<>>
  /\ timers = <<>>
  /\ published = 0
  /\ councilNo = 0
  /\ synthLog = <<>>
  /\ proposedLog = <<>>
  /\ evalLog = NoEval
  /\ fnArg = [call |-> "new"]
  /\ fnRes \in {[sdk |-> NewSDK(tokens), before |-> NewSDK(tokens),
                 thrown |-> FALSE, calls |-> 0, clock |-> 1] : tokens \in TokenSets}

CanCall(now) ==
  /\ DOMAIN fnArg = {"call"} \/ "now" \in DOMAIN fnArg
  /\ fnRes.calls < MaxCalls
  /\ now >= fnRes.clock

Called(after, thrown, now) ==
  [sdk |-> after, before |-> fnRes.sdk, thrown |-> thrown,
   calls |-> fnRes.calls + 1, clock |-> now]

CallRegisterAgent ==
  \E agent \in AgentsToRegister, now \in Times :
    /\ CanCall(now)
    /\ fnArg' = [call |-> "registerAgent", agent |-> agent, now |-> now]
    /\ fnRes' = Called(registerAgent(fnRes.sdk, agent, now), FALSE, now)
    /\ UNCHANGED ledgerVars

CallBroadcast ==
  \E message \in SummaryMessages, now \in Times :
    /\ CanCall(now)
    /\ fnArg' = [call |-> "broadcast", message |-> message, now |-> now]
    /\ fnRes' = Called(C42AgentSDK_broadcast(fnRes.sdk, message, now), FALSE, now)
    /\ UNCHANGED ledgerVars

CallWhisper ==
  \E to \in {"alice", "Ethics-Agent"}, now \in Times :
    /\ CanCall(now)
    /\ fnArg' = [call |-> "whisper", from |-> "Distributor-Agent", to |-> to,
                 content |-> "allocation_executed", now |-> now]
    /\ \E result \in {C42AgentSDK_whisper(fnRes.sdk, "Distributor-Agent", to,
                                          "allocation_executed", now)} :
         fnRes' = Called(result.sdk, result.thrown, now)
    /\ UNCHANGED ledgerVars

CallConvene ==
  \E now \in Times :
    /\ CanCall(now)
    /\ fnArg' = [call |-> "convene", topic |-> "resource_allocation_review",
                 initiator |-> "Distributor-Agent", now |-> now]
    /\ fnRes' = Called(convene(fnRes.sdk, "resource_allocation_review",
                               "Distributor-Agent", now), FALSE, now)
    /\ UNCHANGED ledgerVars

NextSDK == CallRegisterAgent \/ CallBroadcast \/ CallWhisper \/ CallConvene

SpecSDK == InitSDK /\ [][NextSDK]_vars

(***************************************************************************)
(* The maintenance loop of ResourceDistributorAgent                        *)
(* (resource_distributor_agent.tsx).  Times are in days.                   *)
(***************************************************************************)
auditRetentionDays == 90

\* this.allocationHistory.filter(event => event.timestamp > cutoff)
cleanupOldData(history, now) ==
  LET cutoff == now - auditRetentionDays
  IN  SelectSeq(history, LAMBDA event : event.timestamp > cutoff)

EventDays == {0, 30, 100, 120}
CleanupDays == {120, 150, 240}

\* Histories of up to three events, in the order they were appended.
StampedHistories ==
  {h \in UNION {[1..n -> EventDays] : n \in 0..3} :
     \A k \in 1..(Len(h) - 1) : h[k] <= h[k + 1]}

CleanupArgs ==
  {[allocationHistory |->
      [k \in 1..Len(h) |->
         [timestamp |-> h[k], donorId |-> "alice", causeId |-> "climate-fund",
          amount |-> R(10, 1)]],
    now |-> now] : h \in StampedHistories, now \in CleanupDays}

InitCleanup ==
  /\ donors = <<>>
  /\ causes = <<>>
  /\ allocationHistory = <<>>
  /\ isProcessing = FALSE
  /\ councilActive = FALSE
  /\ councilInsights = <<>>
  /\ tasks = <<>>
  /\ timers = <<>>
  /\ published = 0
  /\ councilNo = 0
  /\ synthLog = <<>>
  /\ proposedLog = <<>>
  /\ evalLog = NoEval
  /\ fnArg \in CleanupArgs
  /\ fnRes = <<>>

\* One tick of the setInterval callback.
RunCleanup ==
  /\ fnRes = <<>>
  /\ fnRes' = [allocationHistory |-> cleanupOldData(fnArg.allocationHistory, fnArg.now)]
  /\ UNCHANGED <<ledgerVars, fnArg>>

NextCleanup == RunCleanup

SpecCleanup == InitCleanup /\ [][NextCleanup]_vars

(***************************************************************************)
(* The agent on a transport whose calls may reject, in the time before the *)
(* timers of triggerSpecialistAgents are due.  fnRes records the last      *)
(* rejection: the handler and the await it was suspended at.  The event    *)
(* loop runs every queued continuation, with the call's result or with     *)
(* its rejection: weak fairness of the two continuation actions.           *)
(***************************************************************************)
\* The transport call a handler is at rejects: convene, a broadcast or a
\* whisper of an evaluation, or the acknowledgement whisper after it.
TransportFails ==
  \E idx \in 1..Len(tasks) :
    /\ fnRes' = <<"rejected", tasks[idx].kind, tasks[idx].pc>>
    /\ \E next \in {Throw(Cur, idx)} : Install(next)
    /\ UNCHANGED <<published, fnArg>>

NextRecover ==
  \/ OfferCapacity
  \/ RegisterNeed
  \/ UpdatePreference
  \/ ResumeTask
  \/ TransportFails

SpecRecover ==
  Init /\ [][NextRecover]_vars /\ WF_vars(TransportFails \/ ResumeTask)

(***************************************************************************)
(* districtReducer of the thermal dashboard (resource_distributor_agent)   *)
(* and of the plugin (c42-thermal-equity-plugin).  fnRes holds which of    *)
(* the two components runs, its districts, and whether cooling given by an *)
(* APPLY_COOLING is in effect; fnArg holds the last action.                *)
(***************************************************************************)
floorTemp == 25

MathMax(a, b) == IF a < b THEN b ELSE a

initialDistricts ==
  << [id |-> 1, vulnerability |-> "Low", temp |-> 32, originalTemp |-> 32, cooling |-> 0],
     [id |-> 2, vulnerability |-> "Medium", temp |-> 35, originalTemp |-> 35, cooling |-> 0],
     [id |-> 3, vulnerability |-> "High", temp |-> 38, originalTemp |-> 38, cooling |-> 0],
     [id |-> 4, vulnerability |-> "Critical", temp |-> 41, originalTemp |-> 41, cooling |-> 0] >>

pluginInitialDistricts ==
  << [id |-> 1, vulnerability |-> "Low", temp |-> 32, originalTemp |-> 32, cooling |-> 0,
      nearRiver |-> TRUE, cooperatingAgents |-> {}],
     [id |-> 2, vulnerability |-> "Medium", temp |-> 35, originalTemp |-> 35, cooling |-> 0,
      nearRiver |-> FALSE, cooperatingAgents |-> {}],
     [id |-> 3, vulnerability |-> "High", temp |-> 38, originalTemp |-> 38, cooling |-> 0,
      nearRiver |-> FALSE, cooperatingAgents |-> {}],
     [id |-> 4, vulnerability |-> "Critical", temp |-> 41, originalTemp |-> 41, cooling |-> 0,
      nearRiver |-> TRUE, cooperatingAgents |-> {}] >>

\* The base cooling and the metamaterial boost of a district at a step.
coolingDelta(d, step) ==
  (IF step >= 3
   THEN CASE d.vulnerability = "Critical" -> 8
          [] d.vulnerability = "High" -> 6
          [] d.vulnerability = "Medium" -> 4
          [] OTHER -> 2
   ELSE 0)
  + (IF step >= 4 /\ d.vulnerability \in {"Critical", "High"} THEN 4 ELSE 0)

\* The reducer booking the whole bonus of a collaboration as cooling, also
\* where the floor cuts the drop short.
districtReducerBookingBonus(state, action) ==
  CASE action.type = "APPLY_COOLING" ->
         [k \in 1..Len(state) |->
            LET d == state[k]
                cooled == MathMax(floorTemp, d.originalTemp - coolingDelta(d, action.step))
            IN  [d EXCEPT !.temp = cooled, !.cooling = d.originalTemp - cooled]]
    [] action.type = "AGENT_COLLABORATION" ->
         [k \in 1..Len(state) |->
            LET d == state[k]
            IN  IF action.data.districtId = d.id /\ action.data.enhancement # <<>>
                THEN LET additionalCooling == action.data.enhancement[1].coolingBonus
                     IN  [d EXCEPT !.temp = MathMax(floorTemp, d.temp - additionalCooling),
                                   !.cooling = d.cooling + additionalCooling]
                ELSE d]
    [] action.type = "RESET" ->
         [k \in 1..Len(initialDistricts) |->
            [initialDistricts[k] EXCEPT !.temp = initialDistricts[k].originalTemp,
                                        !.cooling = 0]]
    [] OTHER -> state

\* An action is [type, step] or [type, data] or [type]; data.enhancement is
\* <<>> where the message carries none.
districtReducer(state, action) ==
  CASE action.type = "APPLY_COOLING" ->
         [k \in 1..Len(state) |->
            LET d == state[k]
                cooled == MathMax(floorTemp, d.originalTemp - coolingDelta(d, action.step))
            IN  [d EXCEPT !.temp = cooled, !.cooling = d.originalTemp - cooled]]
    [] action.type = "AGENT_COLLABORATION" ->
         [k \in 1..Len(state) |->
            LET d == state[k]
            IN  IF action.data.districtId = d.id /\ action.data.enhancement # <<>>
                THEN LET additionalCooling == action.data.enhancement[1].coolingBonus
                         newTemp == MathMax(floorTemp, d.temp - additionalCooling)
                     IN  [d EXCEPT !.temp = newTemp,
                                   !.cooling = d.cooling + (d.temp - newTemp)]
                ELSE d]
    [] action.type = "RESET" ->
         [k \in 1..Len(initialDistricts) |->
            [initialDistricts[k] EXCEPT !.temp = initialDistricts[k].originalTemp,
                                        !.cooling = 0]]
    [] OTHER -> state

\* The plugin's reducer; action.collaborations is a set of agent ids.
pluginDistrictReducer(state, action) ==
  CASE action.type = "APPLY_COOLING" ->
         [k \in 1..Len(state) |->
            LET d == state[k]
                collaborationBonus ==
                  (IF d.nearRiver /\ "riverbank-coordinator" \in action.collaborations
                   THEN 2 ELSE 0)
                  + (IF "solar-orchestrator" \in action.collaborations THEN 1 ELSE 0)
                totalCooling == coolingDelta(d, action.step) + collaborationBonus
                cooledTemp == MathMax(floorTemp, d.originalTemp - totalCooling)
            IN  [d EXCEPT !.temp = cooledTemp,
                          !.cooling = d.originalTemp - cooledTemp,
                          !.cooperatingAgents = action.collaborations]]
    [] action.type = "ADD_COLLABORATION" ->
         [k \in 1..Len(state) |->
            IF state[k].id = action.districtId
            THEN [state[k] EXCEPT !.cooperatingAgents = @ \cup {action.agentId}]
            ELSE state[k]]
    [] action.type = "RESET" ->
         [k \in 1..Len(pluginInitialDistricts) |->
            [pluginInitialDistricts[k] EXCEPT
               !.temp = pluginInitialDistricts[k].originalTemp,
               !.cooling = 0, !.cooperatingAgents = {}]]
    [] OTHER -> state

Steps == 0..5
CoolingBonuses == {0, 3, 5}
DistrictIds == 1..5
Collaborators == {"riverbank-coordinator", "solar-orchestrator"}

CollaborationData ==
  {[districtId |-> id, enhancement |-> e] :
     id \in DistrictIds,
     e \in {<<>>} \cup {<<[coolingBonus |-> b]>> : b \in CoolingBonuses}}

InitDistricts ==
  /\ donors = <<>>
  /\ causes = <<>>
  /\ allocationHistory = <<>>
  /\ isProcessing = FALSE
  /\ councilActive = FALSE
  /\ councilInsights = <<>>
  /\ tasks = <<>>
  /\ timers = <<>>
  /\ published = 0
  /\ councilNo = 0
  /\ synthLog = <<>>
  /\ proposedLog = <<>>
  /\ evalLog = NoEval
  /\ fnArg = [type |-> "@@INIT"]
  /\ fnRes \in {[component |-> "dashboard", districts |-> initialDistricts,
                 applied |-> FALSE],
                [component |-> "plugin", districts |-> pluginInitialDistricts,
                 applied |-> FALSE]}

Dispatch(action) ==
  /\ fnArg' = action
  /\ \E next \in {IF fnRes.component = "dashboard"
                   THEN districtReducer(fnRes.districts, action)
                   ELSE pluginDistrictReducer(fnRes.districts, action)} :
       fnRes' = [fnRes EXCEPT
                   !.districts = next,
                   !.applied =
                     CASE action.type = "APPLY_COOLING" ->
                            \E k \in 1..Len(next) : next[k].cooling > 0
                       [] action.type = "RESET" -> FALSE
                       [] OTHER -> @]
  /\ UNCHANGED ledgerVars

ApplyCooling ==
  \E step \in Steps :
    /\ fnRes.component = "dashboard"
    /\ Dispatch([type |-> "APPLY_COOLING", step |-> step])

AgentCollaboration ==
  \E data \in CollaborationData :
    /\ fnRes.component = "dashboard"
    /\ Dispatch([type |-> "AGENT_COLLABORATION", data |-> data])

PluginApplyCooling ==
  \E step \in Steps, collaborations \in SUBSET Collaborators :
    /\ fnRes.component = "plugin"
    /\ Dispatch([type |-> "APPLY_COOLING", step |-> step,
                 collaborations |-> collaborations])

AddCollaboration ==
  \E id \in DistrictIds, agentId \in Collaborators :
    /\ fnRes.component = "plugin"
    /\ Dispatch([type |-> "ADD_COLLABORATION", districtId |-> id, agentId |-> agentId])

ResetDistricts ==
  /\ fnRes.component \in {"dashboard", "plugin"}
  /\ Dispatch([type |-> "RESET"])

NextDistricts ==
  \/ ApplyCooling
  \/ AgentCollaboration
  \/ PluginApplyCooling
  \/ AddCollaboration
  \/ ResetDistricts

SpecDistricts == InitDistricts /\ [][NextDistricts]_vars

(***************************************************************************)
(* calculateAllocations on its own, for ledgers that hold donors without   *)
(* budget, donors without a cause they prefer, causes without need or      *)
(* priority, and causes that are already met.                              *)
(***************************************************************************)
ProposalDonors ==
  {a \o b :
     a \in {<<DonorOf("alice", budget, preferences)>> :
              budget \in {R(0 - 5, 1), R0, R(30, 1)},
              preferences \in {("climate-fund" :> R(4, 5)),
                               ("climate-fund" :> R0),
                               ("education-fund" :> R(4, 5)),
                               ("climate-fund" :> R(4, 5)) @@ ("journalism-fund" :> R(3, 10))}},
     b \in {<<>>,
            <<DonorOf("bob", R(15, 1),
                      ("climate-fund" :> R(2, 5)) @@ ("journalism-fund" :> R(7, 10)))>>}}

ProposalCauses ==
  {c \o j :
     c \in {<<[id |-> "climate-fund", need |-> need, priority |-> priority,
               received |-> received, totalReceived |-> received]>> :
              need \in {R0, R(20, 1)}, priority \in {R0, R(9, 10)},
              received \in {R0, R(15, 1), R(20, 1)}},
     j \in {<<>>,
            <<[id |-> "journalism-fund", need |-> R(35, 1), priority |-> R(7, 10),
               received |-> R0, totalReceived |-> R0]>>}}

ProposalArgs ==
  {[donors |-> ds, causes |-> cs] : ds \in ProposalDonors, cs \in ProposalCauses}

InitProposal ==
  /\ donors = <<>>
  /\ causes = <<>>
  /\ allocationHistory = <<>>
  /\ isProcessing = FALSE
  /\ councilActive = FALSE
  /\ councilInsights = <<>>
  /\ tasks = <<>>
  /\ timers = <<>>
  /\ published = 0
  /\ councilNo = 0
  /\ synthLog = <<>>
  /\ proposedLog = <<>>
  /\ evalLog = NoEval
  /\ fnArg \in ProposalArgs
  /\ fnRes = <<>>

Propose ==
  /\ fnRes = <<>>
  /\ fnRes' = [matrix |-> calculateAllocations(fnArg.donors, fnArg.causes)]
  /\ UNCHANGED <<ledgerVars, fnArg>>

NextProposal == Propose

SpecProposal == InitProposal /\ [][NextProposal]_vars

(***************************************************************************)
(* handleCapacityOffer from the offer to its acknowledgement, on a ledger  *)
(* that may already hold a donor and causes.  The handler is called once;  *)
(* its donor object stays the one in this.donors, so the acknowledgement   *)
(* reads the budget from there.  fnRes.acks lists the whispers sent.       *)
(***************************************************************************)
AckLedgers ==
  {[donors |-> ds, causes |-> cs] :
     ds \in {<<>>,
             <<DonorOf("bob", R(30, 1),
                       ("climate-fund" :> R(4, 5)) @@ ("journalism-fund" :> R(4, 5)))>>},
     cs \in {<<>>,
             <<CauseOf("climate-fund", R(20, 1))>>,
             <<CauseOf("climate-fund", R(20, 1)), CauseOf("journalism-fund", R(20, 1))>>}}

AckOffers ==
  {[donorId |-> "alice", wallet |-> w, allocationPercentage |-> f, preferences |-> p] :
     w \in {R(100, 1), R(150, 1)}, f \in {R(1, 10), R(1, 5), R(3, 10)},
     p \in {("climate-fund" :> R(4, 5)),
            ("climate-fund" :> R(4, 5)) @@ ("journalism-fund" :> R(4, 5))}}

InitAck ==
  /\ fnArg \in {[ledger |-> l, offer |-> o] : l \in AckLedgers, o \in AckOffers}
  /\ donors = fnArg.ledger.donors
  /\ causes = fnArg.ledger.causes
  /\ allocationHistory = <<>>
  /\ isProcessing = FALSE
  /\ councilActive = FALSE
  /\ councilInsights = <<>>
  /\ tasks = <<>>
  /\ timers = <<>>
  /\ published = 0
  /\ councilNo = 0
  /\ synthLog = <<>>
  /\ proposedLog = <<>>
  /\ evalLog = NoEval
  /\ fnRes = <<>>

\* Lines 85-100: the handler up to its first await.
OfferArrives ==
  /\ fnRes = <<>>
  /\ fnRes' = [acks |-> <<>>]
  /\ \E next \in {handleCapacityOffer(Cur, fnArg.offer)} : Install(next)
  /\ UNCHANGED <<published, fnArg>>

\* A continuation inside evaluateAllocations runs.
EvaluationContinues ==
  /\ Len(tasks) > 0
  /\ tasks[1].pc # "afterEval"
  /\ \E next \in {Resume(Cur, 1)} : Install(next)
  /\ UNCHANGED <<published, fnArg, fnRes>>

\* Lines 102-105: the whisper with budget: donor.allocationBudget.
Acknowledge ==
  /\ Len(tasks) > 0
  /\ tasks[1].pc = "afterEval"
  /\ tasks[1].kind = "offer"
  /\ fnRes' = [acks |-> Append(fnRes.acks,
                 [to |-> tasks[1].who,
                  budget |-> donors[IndexOf(donors, tasks[1].who)].allocationBudget])]
  /\ \E next \in {Resume(Cur, 1)} : Install(next)
  /\ UNCHANGED <<published, fnArg>>

NextAck == OfferArrives \/ EvaluationContinues \/ Acknowledge

SpecAck == InitAck /\ [][NextAck]_vars

(***************************************************************************)
(* The event bus of createMockSDK.  A string is the sequence of its parts, *)
(* so that String.includes is the test for a contiguous part.  A listener  *)
(* is the handler itself (filter empty) or the closure of subscribe that   *)
(* tests the topic against its pattern before calling the handler.         *)
(* fnRes.calls lists the handlers the last call of the SDK invoked.        *)
(***************************************************************************)
MaxSubscriptions == 3

BusTopics ==
  {<<"offer", "_", "capacity">>, <<"council", "_", "insight">>, <<"agent", ":", "ready">>}

BusPatterns == BusTopics \cup {<<"*">>, <<"council">>}

BusHandlers == {"handleCapacityOffer", "handleCouncilInsight"}

includes(str, part) ==
  \E i \in 0..(Len(str) - Len(part)) : SubSeq(str, i + 1, i + Len(part)) = part

agentMessage == <<"agent", "_", "message">>

messageEvent(topic) == <<"message", "_">> \o topic

\* eventBus.on: the list of the event is created on first use.
on(listeners, event, listener) ==
  IF event \in DOMAIN listeners
  THEN [listeners EXCEPT ![event] = Append(@, listener)]
  ELSE (event :> <<listener>>) @@ listeners

\* sdk.agent.subscribe: one listener for the topic, one filtered listener
\* for every message.
subscribe(listeners, pattern, handler) ==
  on(on(listeners, messageEvent(pattern), [handler |-> handler, filter |-> <<>>]),
     agentMessage, [handler |-> handler, filter |-> <<pattern>>])

\* The handlers one listener calls for a message of the topic.
Listen(listener, topic) ==
  IF listener.filter = <<>>
  THEN <<listener.handler>>
  ELSE IF listener.filter[1] = <<"*">> \/ includes(topic, listener.filter[1])
       THEN <<listener.handler>>
       ELSE <<>>

RECURSIVE ForEach(_, _)
ForEach(handlers, topic) ==
  IF handlers = <<>> THEN <<>>
  ELSE Listen(Head(handlers), topic) \o ForEach(Tail(handlers), topic)

\* eventBus.emit: the listeners of the event in the order of registration.
emit(listeners, event, topic) ==
  IF event \in DOMAIN listeners THEN ForEach(listeners[event], topic) ELSE <<>>

\* sdk.agent.broadcast: 'agent_message' first, then 'message_<topic>'.
mockBroadcast(listeners, topic) ==
  emit(listeners, agentMessage, topic) \o emit(listeners, messageEvent(topic), topic)

InitBus ==
  /\ donors = <<>>
  /\ causes = <<>>
  /\ allocationHistory = <<>>
  /\ isProcessing = FALSE
  /\ councilActive = FALSE
  /\ councilInsights = <<>>
  /\ tasks = <<>>
  /\ timers = <<>>
  /\ published = 0
  /\ councilNo = 0
  /\ synthLog = <<>>
  /\ proposedLog = <<>>
  /\ evalLog = NoEval
  /\ fnArg = [call |-> "createMockSDK"]
  /\ fnRes = [listeners |-> <<>>, subscriptions |-> <<>>, calls |-> <<>>]

CallSubscribe ==
  \E pattern \in BusPatterns, handler \in BusHandlers :
    /\ Len(fnRes.subscriptions) < MaxSubscriptions
    /\ fnArg' = [call |-> "subscribe", pattern |-> pattern, handler |-> handler]
    /\ fnRes' = [listeners |-> subscribe(fnRes.listeners, pattern, handler),
                 subscriptions |-> Append(fnRes.subscriptions,
                                          [pattern |-> pattern, handler |-> handler]),
                 calls |-> <<>>]
    /\ UNCHANGED ledgerVars

CallMockBroadcast ==
  \E topic \in BusTopics :
    /\ fnArg' = [call |-> "broadcast", topic |-> topic]
    /\ fnRes' = [fnRes EXCEPT !.calls = mockBroadcast(fnRes.listeners, topic)]
    /\ UNCHANGED ledgerVars

NextBus == CallSubscribe \/ CallMockBroadcast

SpecBus == InitBus /\ [][NextBus]_vars

(***************************************************************************)
(* Properties                                                              *)
(***************************************************************************)
\* C1: in every reachable ledger state, every donor's row of the matrix
\* calculateAllocations returns sums to at most that donor's current
\* allocationBudget.
C1_RowSumsWithinBudget ==
  LET allocations == calculateAllocations(donors, causes)
  IN  \A k \in 1..Len(donors) :
        RLe(RowSum(allocations, donors[k].id), donors[k].allocationBudget)

\* C2: at every point of a commit's transfer loop, before the end-of-batch
\* reset, each cause's received-this-cycle is at most its need.
C2_ReceivedWithinNeed ==
  \A k \in 1..Len(causes) : RLe(causes[k].received, causes[k].need)

\* C3: at most one evaluation is inside the body of evaluateAllocations at
\* any time, and while one is, isProcessing is set.
C3_OneEvaluationAtATime ==
  LET evaluating == {k \in 1..Len(tasks) : InEvaluation(tasks[k])}
  IN  /\ Cardinality(evaluating) <= 1
      /\ evaluating # {} => isProcessing

\* C3 happens: an evaluation is suspended on a transport call and another
\* handler, started meanwhile, found evaluateAllocations return at once.
C3_SecondHandlerSkipped ==
  \E i, j \in 1..Len(tasks) :
    /\ InEvaluation(tasks[i])
    /\ tasks[j].pc = "afterEval"
    /\ tasks[j].skipped

\* The proposal an evaluation computes from the ledger it found, and whether
\* that proposal is confident and spread enough to be committed directly.
ProposalOf(log) == calculateAllocations(log.donors, log.causes)

ConfidentAndSpread(log) ==
  /\ RLe(R(7, 10), calculateConfidence(ProposalOf(log), log.causes))
  /\ ~detectMajorReallocation(ProposalOf(log))

\* C4: an evaluation commits the proposal it computed, unchanged and without
\* convening a Council, exactly when confidence >= 0.7 and
\* detectMajorReallocation is false; otherwise it convenes a Council, changes
\* no donor or cause and appends no AllocationEvent.
C4_DirectCommitIffConfidentAndSpread ==
  \A k \in 1..Len(tasks) :
    InEvaluation(tasks[k]) =>
      LET t == tasks[k]
          proposal == ProposalOf(evalLog)
      IN  /\ (t.pc \in ExecutePcs) <=> ConfidentAndSpread(evalLog)
          /\ t.pc \in ExecutePcs =>
               /\ t.allocations = proposal
               /\ councilNo = evalLog.councilNo
               /\ allocationHistory = evalLog.history \o t.executedAllocations
               /\ \A e \in 1..Len(t.executedAllocations) :
                    t.executedAllocations[e].amount =
                      AmountAt(proposal, t.executedAllocations[e].donorId,
                               t.executedAllocations[e].causeId)
          /\ t.pc \in ConvenePcs =>
               /\ councilNo = evalLog.councilNo + 1
               /\ donors = evalLog.donors
               /\ causes = evalLog.causes
               /\ allocationHistory = evalLog.history

\* C4 happens: an evaluation has committed a proposal of four cells directly.
C4_DirectCommitDone ==
  \E k \in 1..Len(tasks) :
    /\ InEvaluation(tasks[k])
    /\ tasks[k].pc = "summarySent"
    /\ Len(tasks[k].executedAllocations) = 4
    /\ councilNo = evalLog.councilNo

\* C5: while a Council is pending (councilActive), no new evaluation starts.
C5_NoEvaluationWhileCouncilPending ==
  evalLog.seen => ~evalLog.councilActive

\* C6: every call of synthesizeCouncilDecision made by handleCouncilInsight
\* receives exactly 3 insights.
C6_SynthesisTakesThreeInsights ==
  \A k \in 1..Len(synthLog) : synthLog[k].insights = 3

\* C7: each convened Council leads to at most one synthesis and commit.
C7_OneSynthesisPerCouncil ==
  \A i, j \in 1..Len(synthLog) :
    synthLog[i].council = synthLog[j].council => i = j

\* The insight carries a value for cell (donorId, causeId).
Contains(insight, donorId, causeId) ==
  /\ Has(insight.recommendations, donorId)
  /\ Has(insight.recommendations[IndexOf(insight.recommendations, donorId)].cells, causeId)

\* The (row, cell) positions of a matrix.
Positions(m) == {<<k, j>> \in (1..Len(m)) \X (1..2) : j <= Len(m[k].cells)}

\* C8: for every cell for which the three insights recommend a, b and c, the
\* result is 0.7 * ((a + b + c) / 3) + 0.3 * o, o being the proposal's value.
C8_BlendOfThree ==
  fnRes # <<>> =>
    \A pos \in Positions(fnArg.proposed) :
      LET d == fnArg.proposed[pos[1]].id
          c == fnArg.proposed[pos[1]].cells[pos[2]].id
          o == fnArg.proposed[pos[1]].cells[pos[2]].amount
          rec(i) == AmountAt(fnArg.insights[i].recommendations, d, c)
      IN  (\A i \in 1..3 : Contains(fnArg.insights[i], d, c)) =>
            AmountAt(fnRes, d, c) =
              RAdd(RMul(R(7, 10), RDiv(RAdd(rec(1), RAdd(rec(2), rec(3))), R(3, 1))),
                   RMul(R(3, 10), o))

\* C9: a cell of the proposal that none of the insights contains keeps the
\* proposal's value, and the synthesized matrix has exactly the proposal's
\* (donor, cause) cells.
C9_UnadvisedCellsUnchanged ==
  fnRes # <<>> =>
    /\ CellsOf(fnRes) = CellsOf(fnArg.proposed)
    /\ Len(Amounts(fnRes)) = Len(Amounts(fnArg.proposed))
    /\ \A pos \in Positions(fnArg.proposed) :
         LET d == fnArg.proposed[pos[1]].id
             c == fnArg.proposed[pos[1]].cells[pos[2]].id
             o == fnArg.proposed[pos[1]].cells[pos[2]].amount
         IN  (\A i \in 1..3 : ~Contains(fnArg.insights[i], d, c)) =>
               AmountAt(fnRes, d, c) = o

\* C9 happens: the three insights advise on climate-fund, which the synthesis
\* changed, and none of them contains the education-fund cell.
C9_OneCellUnadvised ==
  /\ fnRes # <<>>
  /\ \A i \in 1..3 :
       /\ Recommends(fnArg.insights[i], "bob", "climate-fund")
       /\ ~Contains(fnArg.insights[i], "bob", "education-fund")
  /\ AmountAt(fnRes, "bob", "climate-fund") #
       AmountAt(fnArg.proposed, "bob", "climate-fund")

\* C10: every insight that contains a value for a cell, the value 0 included,
\* enters the mean of the blend; only an insight omitting the cell abstains.
C10_EveryContainedValueCounts ==
  fnRes # <<>> =>
    \A pos \in Positions(fnArg.proposed) :
      LET d == fnArg.proposed[pos[1]].id
          c == fnArg.proposed[pos[1]].cells[pos[2]].id
          o == fnArg.proposed[pos[1]].cells[pos[2]].amount
          holders == SelectSeq(fnArg.insights, LAMBDA x : Contains(x, d, c))
          mean ==
            RDiv(RSum([i \in 1..Len(holders) |-> AmountAt(holders[i].recommendations, d, c)]),
                 R(Len(holders), 1))
      IN  AmountAt(fnRes, d, c) =
            IF Len(holders) > 0
            THEN RAdd(RMul(R(7, 10), mean), RMul(R(3, 10), o))
            ELSE o

\* C11: the matrix blended when a Council reaches quorum is the proposal that
\* was computed when that Council was opened.
C11_BlendsTheOpeningProposal ==
  \A k \in 1..Len(synthLog) :
    (\A h \in 1..(k - 1) : synthLog[h].council # synthLog[k].council) =>
      synthLog[k].proposed = proposedLog[synthLog[k].council]

\* The largest share of a matrix's total volume that a single cell holds.
LargestShare(m) ==
  LET amounts == Amounts(m)
      largest == CHOOSE a \in {amounts[k] : k \in 1..Len(amounts)} :
                   \A k \in 1..Len(amounts) : RLe(amounts[k], a)
  IN  RDiv(largest, RSum(amounts))

\* C12: the largest single-cell share of total volume in the synthesized
\* matrix is not greater than the largest single-cell share in the proposal.
C12_SynthesisNeverConcentrates ==
  fnRes # <<>> => RLe(LargestShare(fnRes), LargestShare(fnArg.proposed))

\* What a matrix proposes for a cause, all rows together.
ProposedFor(m, causeId) == RSum([k \in 1..Len(m) |-> CellOr0(m[k], causeId)])

\* C13: calculateConfidence returns a value in [0, 1], and exactly 1 when the
\* sum of all causes' need is zero.
C13_ConfidenceInUnitInterval ==
  fnRes # <<>> =>
    /\ RLe(R0, fnRes)
    /\ RLe(fnRes, R1)
    /\ RSum([k \in 1..Len(fnArg.causes) |-> fnArg.causes[k].need]) = R0 => fnRes = R1

\* C13 happens: the confidence was computed for a matrix that proposes more
\* than the need of one cause and less than the need of another.
C13_OneCauseOverfunded ==
  /\ fnRes # <<>>
  /\ \E k \in 1..Len(fnArg.causes) :
       /\ RLt(R0, fnArg.causes[k].need)
       /\ RLt(fnArg.causes[k].need, ProposedFor(fnArg.allocations, fnArg.causes[k].id))
  /\ \E k \in 1..Len(fnArg.causes) :
       RLt(ProposedFor(fnArg.allocations, fnArg.causes[k].id), fnArg.causes[k].need)

ScenarioLedger(need) ==
  /\ Len(evalLog.donors) = 1
  /\ evalLog.donors[1].id = "alice"
  /\ evalLog.donors[1].wallet = R(150, 1)
  /\ evalLog.donors[1].preferences = ("climate-fund" :> R(4, 5))
  /\ evalLog.causes = <<[id |-> "climate-fund", need |-> need, priority |-> R(9, 10),
                         received |-> R0, totalReceived |-> R0]>>

\* C15: scenario A (need 45): the proposal gives the cell 30, the confidence is
\* 30/45, a Council is convened and the evaluation commits nothing.
C15_ScenarioAConvenes ==
  \A k \in 1..Len(tasks) :
    InEvaluation(tasks[k]) /\ ScenarioLedger(R(45, 1)) =>
      /\ tasks[k].pc \in ConvenePcs
      /\ tasks[k].allocations =
           <<[id |-> "alice", cells |-> <<[id |-> "climate-fund", amount |-> R(30, 1)]>>]>>
      /\ tasks[k].confidence = R(30, 45)
      /\ RLt(tasks[k].confidence, R(7, 10))
      /\ councilActive
      /\ councilNo = evalLog.councilNo + 1
      /\ donors = evalLog.donors
      /\ causes = evalLog.causes
      /\ allocationHistory = evalLog.history

\* C15 happens: the evaluation of scenario A has convened its Council.
C15_ScenarioAEvaluated ==
  \E k \in 1..Len(tasks) :
    /\ InEvaluation(tasks[k])
    /\ ScenarioLedger(R(45, 1))
    /\ tasks[k].pc = "contextSent"

\* C16: scenario B (need 20): the proposal gives the cell 20, the confidence
\* is 1.0, and the proposal is executed directly without convening a Council.
C16_ScenarioBExecutesDirectly ==
  \A k \in 1..Len(tasks) :
    InEvaluation(tasks[k]) /\ ScenarioLedger(R(20, 1)) =>
      /\ tasks[k].pc \in ExecutePcs
      /\ tasks[k].allocations =
           <<[id |-> "alice", cells |-> <<[id |-> "climate-fund", amount |-> R(20, 1)]>>]>>
      /\ tasks[k].confidence = R1
      /\ councilNo = evalLog.councilNo

\* Both donors of the matrix propose to one cause, each at least (strictly:
\* more than) the share 3/10 of the total proposed volume.
TwoDonorsShare(m, strictly) ==
  \E c \in {"climate-fund", "journalism-fund"} :
    \A d \in {"alice", "bob"} :
      LET amount == AmountAt(m, d, c)
          bar == RMul(RSum(Amounts(m)), R(3, 10))
      IN  /\ RLt(R0, amount)
          /\ IF strictly THEN RLt(bar, amount) ELSE RLe(bar, amount)

\* C17 as stated: whenever two donors each propose at least 30% of the total
\* proposed volume to the same cause, detectMajorReallocation returns true and
\* a Council is convened, whatever the confidence.
C17_AtLeastThirtyPercentConvenes ==
  fnRes # <<>> /\ TwoDonorsShare(fnArg.allocations, FALSE) =>
    fnRes.major /\ fnRes.convened

\* C17 amended: whenever two donors each propose more than 30% of the total
\* proposed volume to the same cause, detectMajorReallocation returns true and
\* a Council is convened, whatever the confidence.
C17_MoreThanThirtyPercentConvenes ==
  fnRes # <<>> /\ TwoDonorsShare(fnArg.allocations, TRUE) =>
    fnRes.major /\ fnRes.convened

\* C17 happens: two donors each propose more than 30% to one cause, the
\* confidence is 1.0 and the Council was convened.
C17_ConvenedAtFullConfidence ==
  /\ fnRes # <<>>
  /\ TwoDonorsShare(fnArg.allocations, TRUE)
  /\ fnArg.confidence = R1
  /\ fnRes.convened

\* C18: every donor's allocationBudget is at most that donor's wallet.
C18_BudgetWithinWallet ==
  \A k \in 1..Len(donors) : RLe(donors[k].allocationBudget, donors[k].wallet)

\* C19: every donor's wallet and allocationBudget are non-negative.
C19_BalancesNonNegative ==
  \A k \in 1..Len(donors) :
    /\ RLe(R0, donors[k].wallet)
    /\ RLe(R0, donors[k].allocationBudget)

\* The batch of fnArg.matrix has run through both loops and sent its summary.
CommitFinished ==
  /\ fnRes = <<"executeAllocations">>
  /\ Len(tasks) = 1
  /\ tasks[1].pc = "summarySent"

PositiveCells(m) ==
  {<<i, j>> \in (1..Len(m)) \X (1..2) :
     j <= Len(m[i].cells) /\ RLt(R0, m[i].cells[j].amount)}

PositivePart(a) == IF RLt(R0, a) THEN a ELSE R0

\* Sum of the positive cells of the donor's row.
DonorDebit(m, donorId) ==
  IF Has(m, donorId)
  THEN LET cells == m[IndexOf(m, donorId)].cells
       IN  RSum([j \in 1..Len(cells) |-> PositivePart(cells[j].amount)])
  ELSE R0

\* Sum of the positive cells of the cause's column.
CauseCredit(m, causeId) ==
  RSum([i \in 1..Len(m) |-> PositivePart(CellOr0(m[i], causeId))])

EventsOf(donorId, causeId) ==
  {e \in 1..Len(allocationHistory) :
     /\ allocationHistory[e].donorId = donorId
     /\ allocationHistory[e].causeId = causeId}

\* C20: a batch that runs alone on a ledger holding all its donors and causes
\* debits each donor's wallet and budget by the positive cells of its row,
\* credits each cause's totalReceived by the positive cells of its column,
\* appends exactly one event with a positive amount per positive cell, and
\* reports their sum as totalAllocated.
C20_CommitAccounting ==
  CommitFinished =>
    LET m == fnArg.matrix
        total == RSum([k \in 1..Len(fnArg.donors) |-> DonorDebit(m, fnArg.donors[k].id)])
    IN  /\ \A k \in 1..Len(donors) :
             /\ donors[k].wallet =
                  RSub(fnArg.donors[k].wallet, DonorDebit(m, donors[k].id))
             /\ donors[k].allocationBudget =
                  RSub(fnArg.donors[k].allocationBudget, DonorDebit(m, donors[k].id))
        /\ \A k \in 1..Len(causes) :
             causes[k].totalReceived =
               RAdd(fnArg.causes[k].totalReceived, CauseCredit(m, causes[k].id))
        /\ Len(allocationHistory) = Cardinality(PositiveCells(m))
        /\ \A e \in 1..Len(allocationHistory) : RLt(R0, allocationHistory[e].amount)
        /\ \A c \in PositiveCells(m) :
             LET events == EventsOf(m[c[1]].id, m[c[1]].cells[c[2]].id)
             IN  /\ Cardinality(events) = 1
                 /\ \A e \in events :
                      allocationHistory[e].amount = m[c[1]].cells[c[2]].amount
        /\ allocationSummary(tasks[1]).totalAllocated = total
        /\ total = RSum([k \in 1..Len(causes) |-> CauseCredit(m, causes[k].id)])
        /\ total = RSum([e \in 1..Len(allocationHistory) |-> allocationHistory[e].amount])

\* A finished batch of two rows with positive and non-positive cells.
C20_MixedBatchFinished ==
  /\ CommitFinished
  /\ Len(fnArg.matrix) = 2
  /\ Cardinality(PositiveCells(fnArg.matrix)) = 3
  /\ \E k \in 1..2 : RLt(fnArg.matrix[k].cells[1].amount, R0)
  /\ fnArg.causes[1].totalReceived # R0

\* The matrix with the cells of unknown donors and unknown causes set to 0.
KnownPart(m, ds, cs) ==
  [i \in 1..Len(m) |->
     [m[i] EXCEPT !.cells =
        [j \in 1..Len(m[i].cells) |->
           IF Has(ds, m[i].id) /\ Has(cs, m[i].cells[j].id)
           THEN m[i].cells[j]
           ELSE [m[i].cells[j] EXCEPT !.amount = R0]]]]

\* C21: a cell whose donor or cause is not in the ledger is skipped: no donor
\* or cause appears or changes for it and no AllocationEvent is recorded for
\* it, while every other positive cell of the batch is applied in full.
C21_UnknownCellsSkipped ==
  LET known == KnownPart(fnArg.matrix, fnArg.donors, fnArg.causes)
  IN  /\ \A e \in 1..Len(allocationHistory) :
           /\ Has(fnArg.donors, allocationHistory[e].donorId)
           /\ Has(fnArg.causes, allocationHistory[e].causeId)
      /\ [k \in 1..Len(donors) |-> donors[k].id]
           = [k \in 1..Len(fnArg.donors) |-> fnArg.donors[k].id]
      /\ [k \in 1..Len(causes) |-> causes[k].id]
           = [k \in 1..Len(fnArg.causes) |-> fnArg.causes[k].id]
      /\ CommitFinished =>
           /\ \A k \in 1..Len(donors) :
                /\ donors[k].wallet =
                     RSub(fnArg.donors[k].wallet, DonorDebit(known, donors[k].id))
                /\ donors[k].allocationBudget =
                     RSub(fnArg.donors[k].allocationBudget, DonorDebit(known, donors[k].id))
           /\ \A k \in 1..Len(causes) :
                causes[k].totalReceived =
                  RAdd(fnArg.causes[k].totalReceived, CauseCredit(known, causes[k].id))
           /\ Len(allocationHistory) = Cardinality(PositiveCells(known))
           /\ \A c \in PositiveCells(known) :
                \E e \in 1..Len(allocationHistory) :
                  /\ allocationHistory[e].donorId = known[c[1]].id
                  /\ allocationHistory[e].causeId = known[c[1]].cells[c[2]].id
                  /\ allocationHistory[e].amount = known[c[1]].cells[c[2]].amount
           /\ allocationSummary(tasks[1]).allocationCount = Cardinality(PositiveCells(known))

\* A finished batch of four positive cells on a ledger without bob and
\* without climate-fund: only alice's journalism-fund cell was applied.
C21_OneOfFourApplied ==
  /\ CommitFinished
  /\ Cardinality(PositiveCells(fnArg.matrix)) = 4
  /\ Len(fnArg.donors) = 1 /\ fnArg.donors[1].id = "alice"
  /\ Len(fnArg.causes) = 1 /\ fnArg.causes[1].id = "journalism-fund"
  /\ Len(allocationHistory) = 1

\* C22: after an execution of executeAllocations has ended, normally or by a
\* rejected notification, every cause's received is zero and every cause's
\* need is what it was before the batch.
C22_ReceivedResetAfterEveryExecution ==
  (fnRes # <<>> /\ \A k \in 1..Len(tasks) : tasks[k].pc \notin ExecutePcs) =>
    \A k \in 1..Len(causes) :
      /\ causes[k].received = R0
      /\ causes[k].need = fnArg.causes[k].need

\* C23: the allocation_summary broadcast that ends a commit batch appends
\* exactly one AuditEntry, and that entry's payload, over which its checksum
\* is computed, is the batch.
C23_OneAuditEntryOverTheBatch ==
  fnArg.call = "broadcast" =>
    LET logged == fnRes.sdk.auditLog
        earlier == fnRes.before.auditLog
    IN  /\ Len(logged) = Len(earlier) + 1
        /\ SubSeq(logged, 1, Len(earlier)) = earlier
        /\ "content" \in DOMAIN logged[Len(logged)].details
        /\ logged[Len(logged)].details.content = fnArg.message.content

\* C24: the allocation history is append-only: after the maintenance loop has
\* run, every AllocationEvent that was appended is still there, unmodified
\* and in its original order.
C24_HistoryKeptByMaintenance ==
  fnRes # <<>> => fnRes.allocationHistory = fnArg.allocationHistory

\* The handler of task t found an evaluation in flight, and the ledger after
\* the step holds what its message carried.
UpdateWritten(t, ds, cs) ==
  CASE t.kind = "offer" ->
         \E o \in Offers :
           /\ o.donorId = t.who
           /\ Has(ds, t.who)
           /\ ds[IndexOf(ds, t.who)] =
                [id |-> o.donorId, wallet |-> o.wallet, preferences |-> o.preferences,
                 allocationBudget |-> RMul(o.wallet, o.allocationPercentage)]
    [] t.kind = "need" ->
         \E n \in Needs :
           /\ n.causeId = t.who
           /\ Has(cs, t.who)
           /\ cs[IndexOf(cs, t.who)] =
                [id |-> n.causeId, need |-> n.need, priority |-> n.priority,
                 received |-> R0, totalReceived |-> R0]
    [] t.kind = "pref" ->
         \E p \in PreferenceUpdates :
           /\ p.donorId = t.who
           /\ Has(ds, t.who)
           /\ \A c \in DOMAIN p.preferences :
                Pref(ds[IndexOf(ds, t.who)], c) = p.preferences[c]
    [] OTHER -> TRUE

\* C25: an update that arrives while an evaluation is in flight is in the
\* ledger when its handler returns and starts no second evaluation; what an
\* update wrote (a donor's preferences, a cause's need and priority) stays in
\* the ledger until another message arrives, so the next evaluation reads it.
C25_UpdatesInFlightAreKept ==
  [][IF published' = published + 1
     THEN /\ Cardinality({j \in 1..Len(tasks') : InEvaluation(tasks'[j])}) <= 1
          /\ councilNo' <= councilNo + 1
          /\ \A k \in 1..Len(tasks') :
               tasks'[k].skipped => UpdateWritten(tasks'[k], donors', causes')
     ELSE /\ Len(donors') = Len(donors)
          /\ Len(causes') = Len(causes)
          /\ \A k \in 1..Len(donors) :
               /\ donors'[k].id = donors[k].id
               /\ donors'[k].preferences = donors[k].preferences
          /\ \A k \in 1..Len(causes) :
               /\ causes'[k].id = causes[k].id
               /\ causes'[k].need = causes[k].need
               /\ causes'[k].priority = causes[k].priority]_vars

\* bob's offer was delivered again while the evaluation its first delivery
\* started was committing: the second handler skipped the evaluation and
\* bob is in the ledger as offered.
C25_OfferDuringCommit ==
  \E k, j \in 1..Len(tasks) :
    /\ tasks[k].skipped /\ tasks[k].kind = "offer" /\ tasks[k].who = "bob"
    /\ tasks[j].kind = "offer" /\ tasks[j].pc \in ExecutePcs
    /\ UpdateWritten(tasks[k], donors, causes)

\* The sender holds an unexpired token for the target with capability
\* 'whisper' and confidence above 0.5.
HoldsWhisperToken(sdk, from, to, now) ==
  \E token \in sdk.trustNetwork[from] :
    /\ token.holder = to
    /\ token.capability = "whisper"
    /\ now < token.expires
    /\ RLt(R(1, 2), token.confidence)

\* The messages the agent has been handed; none if it is not registered.
InboxOf(sdk, agentId) ==
  IF Has(sdk.agents, agentId) THEN sdk.agents[IndexOf(sdk.agents, agentId)].inbox
  ELSE <<>>

\* C26: whisper hands the message to the target only if the sender holds an
\* unexpired 'whisper' token for it with confidence above 0.5; otherwise the
\* call throws, nobody receives anything and the SDK is as it was.
C26_WhisperNeedsTrust ==
  fnArg.call = "whisper" =>
    LET trusted == HoldsWhisperToken(fnRes.before, fnArg.from, fnArg.to, fnArg.now)
    IN  /\ fnRes.thrown <=> ~trusted
        /\ fnRes.thrown => fnRes.sdk = fnRes.before
        /\ \A id \in AgentIds :
             InboxOf(fnRes.sdk, id) # InboxOf(fnRes.before, id) =>
               /\ trusted
               /\ id = fnArg.to
               /\ InboxOf(fnRes.sdk, id) =
                    Append(InboxOf(fnRes.before, id),
                           [from |-> fnArg.from, to |-> fnArg.to, type |-> "whisper",
                            topic |-> "private_message", content |-> fnArg.content,
                            timestamp |-> fnArg.now])
        /\ (trusted /\ Has(fnRes.before.agents, fnArg.to)) =>
             Len(InboxOf(fnRes.sdk, fnArg.to)) = Len(InboxOf(fnRes.before, fnArg.to)) + 1

\* A whisper to the registered agent alice was refused although the sender
\* holds an unexpired 'whisper' token for alice: its confidence is exactly 0.5.
C26_RefusedAtHalfConfidence ==
  /\ fnArg.call = "whisper"
  /\ fnArg.to = "alice"
  /\ fnArg.now = 1
  /\ Has(fnRes.before.agents, "alice")
  /\ \E token \in fnRes.before.trustNetwork["Distributor-Agent"] :
       token.holder = "alice" /\ token.capability = "whisper"
         /\ token.confidence = R(1, 2)
  /\ fnRes.thrown

\* C27: an event's councilSynthesized flag is true exactly if the batch that
\* recorded it commits a matrix made by synthesizeCouncilDecision, that is,
\* if the batch was started by handleCouncilInsight and not by
\* evaluateAllocations.
C27_FlagTellsSynthesis ==
  \A k \in 1..Len(tasks) :
    \A e \in 1..Len(tasks[k].executedAllocations) :
      tasks[k].executedAllocations[e].councilSynthesized <=> tasks[k].kind = "insight"

\* C28: whenever isProcessing is set it is cleared again, also when a call
\* of the transport rejects during the evaluation.
C28_ProcessingEnds == isProcessing ~> ~isProcessing

\* A whisper of a direct commit was rejected and isProcessing is false.
C28_RecoveredFromRejectedWhisper ==
  /\ fnRes # <<>>
  /\ fnRes[2] # "insight"
  /\ fnRes[3] = "donorNotified"
  /\ ~isProcessing
  /\ tasks = <<>>

\* C29: every call of registerAgent, broadcast, whisper and convene appends
\* an entry to the audit log and emits an audit_entry event for it.
C29_EveryCallAudited ==
  fnArg.call \in {"registerAgent", "broadcast", "whisper", "convene"} =>
    /\ Len(fnRes.sdk.auditLog) > Len(fnRes.before.auditLog)
    /\ Len(fnRes.sdk.emitted) > Len(fnRes.before.emitted)
    /\ fnRes.sdk.emitted[Len(fnRes.sdk.emitted)] =
         [event |-> "audit_entry",
          entry |-> fnRes.sdk.auditLog[Len(fnRes.sdk.auditLog)]]

\* Every Critical or High district has at least the cooling of every Medium
\* or Low district.
VulnerableCooledMost(districts) ==
  \A v, o \in 1..Len(districts) :
    (/\ districts[v].vulnerability \in {"Critical", "High"}
     /\ districts[o].vulnerability \in {"Medium", "Low"})
      => districts[v].cooling >= districts[o].cooling

\* C30: while cooling given by an APPLY_COOLING is in effect (no RESET came
\* after it), every Critical or High district has at least the cooling of
\* every Medium or Low district.
C30_JusticeFirst == fnRes.applied => VulnerableCooledMost(fnRes.districts)

\* The tasks suspended inside executeAllocations.
BatchesInProgress == {k \in 1..Len(tasks) : tasks[k].pc \in ExecutePcs}

\* C31: at most one executeAllocations call is in progress at a time.
C31_OneBatchAtATime == Cardinality(BatchesInProgress) <= 1

\* C32: after handleCapacityOffer has stored an offer with a positive wallet,
\* the donor's allocationBudget is above 0 and at most the wallet, whatever
\* fraction the offer carries.
C32_FractionClamped ==
  (fnRes = <<"offer_capacity">> /\ RLt(R0, fnArg.wallet)) =>
    \A k \in 1..Len(donors) :
      donors[k].id = fnArg.donorId =>
        /\ RLt(R0, donors[k].allocationBudget)
        /\ RLe(donors[k].allocationBudget, fnArg.wallet)

\* The sum of every amount of a matrix, row by row.
MatrixTotal(m) ==
  RSum([k \in 1..Len(m) |-> RSum([j \in 1..Len(m[k].cells) |-> m[k].cells[j].amount])])

\* Ten times some cell's amount is more than three times the matrix total.
SomeCellAboveThreeTenths(m) ==
  \E k \in 1..Len(m) : \E j \in 1..Len(m[k].cells) :
    RLt(RMul(R(3, 1), MatrixTotal(m)), RMul(R(10, 1), m[k].cells[j].amount))

\* C33: detectMajorReallocation is true exactly if some single amount is
\* strictly above 30% of the sum of all amounts; false for a matrix without
\* cells.
C33_MajorIffCellAboveShare ==
  fnRes # <<>> =>
    /\ fnRes.major <=> SomeCellAboveThreeTenths(fnArg.allocations)
    /\ (\A k \in 1..Len(fnArg.allocations) : fnArg.allocations[k].cells = <<>>)
         => ~fnRes.major

\* A matrix of four cells 3, 2, 3, 2: the largest is exactly 30% of the total
\* and the answer is false.
C33_ExactlyThirtyPercentIsNotMajor ==
  /\ fnRes # <<>>
  /\ Amounts(fnArg.allocations) = <<R(3, 1), R(2, 1), R(3, 1), R(2, 1)>>
  /\ ~fnRes.major

\* The causes of the ledger for which the donor has a positive preference.
PreferredCauses(donor, cs) == {k \in 1..Len(cs) : RLt(R0, Pref(donor, cs[k].id))}

\* preference x priority x min(need, budget), added up over the preferred causes.
TotalScore(donor, cs) ==
  RSum([k \in 1..Len(cs) |->
          IF k \in PreferredCauses(donor, cs)
          THEN RMul(RMul(Pref(donor, cs[k].id), cs[k].priority),
                    RMin(cs[k].need, donor.allocationBudget))
          ELSE R0])

\* The cells of the donor in the matrix; none if the donor has no row.
CellsFor(m, donorId) == IF Has(m, donorId) THEN m[IndexOf(m, donorId)].cells ELSE <<>>

\* C34: a donor without budget, without a preferred cause or with a total
\* weighted score of zero has no cell in the proposal; every cell of the
\* proposal has a positive amount and a cause its donor prefers.
C34_OnlyPositiveCellsOfPreferredCauses ==
  fnRes # <<>> =>
    \A d \in 1..Len(fnArg.donors) :
      LET donor == fnArg.donors[d]
          cells == CellsFor(fnRes.matrix, donor.id)
      IN  /\ (\/ RLe(donor.allocationBudget, R0)
              \/ PreferredCauses(donor, fnArg.causes) = {}
              \/ TotalScore(donor, fnArg.causes) = R0) => cells = <<>>
          /\ \A j \in 1..Len(cells) :
               /\ RLt(R0, cells[j].amount)
               /\ RLt(R0, Pref(donor, cells[j].id))
               /\ Has(fnArg.causes, cells[j].id)

\* alice has budget and prefers both causes; climate-fund is already met, so
\* her only cell is the one of journalism-fund; bob has cells as well.
C34_MetCauseLeftOut ==
  /\ fnRes # <<>>
  /\ Len(fnArg.donors) = 2
  /\ fnArg.donors[1].allocationBudget = R(30, 1)
  /\ DOMAIN fnArg.donors[1].preferences = {"climate-fund", "journalism-fund"}
  /\ Len(fnArg.causes) = 2
  /\ fnArg.causes[1].need = R(20, 1)
  /\ fnArg.causes[1].received = R(20, 1)
  /\ fnArg.causes[1].priority = R(9, 10)
  /\ Len(CellsFor(fnRes.matrix, "alice")) = 1
  /\ CellsFor(fnRes.matrix, "alice")[1].id = "journalism-fund"

C36_FewCellsAlwaysEscalate ==
  fnRes # <<>> =>
    LET amounts == Amounts(fnArg.allocations)
        positive == {k \in 1..Len(amounts) : RLt(R0, amounts[k])}
    IN  /\ Cardinality(positive) \in 1..3 => fnRes.convened
        /\ (Cardinality(positive) >= 1 /\ ~fnRes.convened) =>
             /\ Cardinality(positive) >= 4
             /\ ~SomeCellAboveThreeTenths(fnArg.allocations)

\* A proposal of three cells with confidence 1.0 went to a Council.
C36_ThreeCellsEscalatedAtFullConfidence ==
  /\ fnRes # <<>>
  /\ Len(Amounts(fnArg.allocations)) = 3
  /\ fnArg.confidence = R1
  /\ fnRes.convened

\* The subscriptions of the handler that a message of the topic concerns: the
\* pattern is the topic, is '*', or is a part of the topic.
SubscriptionsFor(handler, topic) ==
  {k \in 1..Len(fnRes.subscriptions) :
     /\ fnRes.subscriptions[k].handler = handler
     /\ \/ fnRes.subscriptions[k].pattern = <<"*">>
        \/ includes(topic, fnRes.subscriptions[k].pattern)}

\* C37: a broadcast on a topic invokes every handler subscribed to the topic
\* exactly once for each of its subscriptions.
C37_EachHandlerInvokedOnce ==
  fnArg.call = "broadcast" =>
    \A handler \in BusHandlers :
      Cardinality({k \in 1..Len(fnRes.calls) : fnRes.calls[k] = handler})
        = Cardinality(SubscriptionsFor(handler, fnArg.topic))

\* The insights the specialists of the Council in session produce: those
\* generated from the proposal that Council was convened with.
InsightsOfCouncilInSession ==
  LET proposed == proposedLog[councilNo]
  IN  {generateEthicsInsight(proposed), generateImpactInsight(proposed)}
        \cup {generateCommunityInsight(proposed, random) : random \in RandomFor(proposed)}

\* C38: an insight collected for one Council is never counted toward the
\* quorum of a later Council: every insight in councilInsights was produced
\* for the Council in session.  (With no Council active councilInsights is
\* empty and handleCouncilInsight returns at its first line.)
C38_InsightsStayWithTheirCouncil ==
  /\ ~councilActive => councilInsights = <<>>
  /\ councilActive =>
       \A k \in 1..Len(councilInsights) : councilInsights[k] \in InsightsOfCouncilInSession

\* The amounts of the events after position n of the history whose field
\* (donorId or causeId) is the id, added up.
RecordedSince(n, field, id) ==
  RSum([k \in 1..Len(allocationHistory) |->
          IF k > n /\ allocationHistory[k][field] = id
          THEN allocationHistory[k].amount ELSE R0])

\* The wallets the offers of a donor carry.
OfferedWallets(id) == {content.wallet : content \in {o \in Offers : o.donorId = id}}

\* C39: funds are conserved: every donor's wallet is the wallet of an offer of
\* that donor minus the amounts recorded for the donor since some point of the
\* history (the point at which the most recent offer was applied), and every
\* cause's totalReceived is the sum of all amounts ever recorded for it.
C39_FundsConserved ==
  /\ \A d \in 1..Len(donors) :
       \E n \in 0..Len(allocationHistory), wallet \in OfferedWallets(donors[d].id) :
         donors[d].wallet = RSub(wallet, RecordedSince(n, "donorId", donors[d].id))
  /\ \A c \in 1..Len(causes) :
       causes[c].totalReceived = RecordedSince(0, "causeId", causes[c].id)

\* C40: after any sequence of APPLY_COOLING, AGENT_COLLABORATION and RESET
\* from the initial districts every district has temp >= 25 and
\* temp + cooling = originalTemp, and after RESET the districts are exactly
\* the initial ones.
C40_FloorAndBookkeeping ==
  /\ \A k \in 1..Len(fnRes.districts) :
       /\ fnRes.districts[k].temp >= 25
       /\ fnRes.districts[k].temp + fnRes.districts[k].cooling
            = fnRes.districts[k].originalTemp
  /\ fnArg.type = "RESET" =>
       fnRes.districts = IF fnRes.component = "dashboard"
                         THEN initialDistricts ELSE pluginInitialDistricts

\* A collaboration bonus of 5 met the floor: the Critical district, cooled to
\* 29 by APPLY_COOLING, stands at 25 with cooling 16.
C40_BonusCutShortByFloor ==
  /\ fnArg.type = "AGENT_COLLABORATION"
  /\ fnArg.data.districtId = 4
  /\ fnArg.data.enhancement = <<[coolingBonus |-> 5]>>
  /\ fnRes.districts[4].temp = 25
  /\ fnRes.districts[4].cooling = 16

====
